---- MODULE Spec2Model ----
(***************************************************************************)
(* PDF-to-Excel converter: the multi-strategy extraction pipeline of       *)
(* core/extractor.py (PDFExtractor) with its header sanitizer, table       *)
(* stage, completeness reconciliation and consolidation.                   *)
(*                                                                         *)
(* Values.  Python strings are TLA+ strings.  A cell of a table or of a    *)
(* DataFrame is a tagged tuple, so that the integer 3 and the string "3"   *)
(* are different values, as they are in Python: I(3), S("3"), NoneCell.    *)
(* A DataFrame is [columns |-> sequence of labels, rows |-> sequence of    *)
(* sequences of cells].                                                    *)
(***************************************************************************)
EXTENDS Integers, Sequences, FiniteSets, TLC

VARIABLES
    \* ---- header sanitizer harness (PDFExtractor._clean_column_names)
    headers,        \* the raw header list handed to _clean_column_names
    cleaned,        \* its result, or NotRun
    recleaned,      \* the result of sanitizing `cleaned` again, or NotRun
    hpc             \* "pick" | "cleaned" | "recleaned"

hvars == <<headers, cleaned, recleaned, hpc>>

VARIABLES
    \* ---- table harness (the per-table body of extract_text_tables)
    table,          \* one raw table as page.extract_tables() returns it
    tpage,          \* page_num of the enclosing loop
    tidx,           \* table_idx of the enclosing loop (0-based)
    tout,           \* the DataFrames appended for this table (none or one)
    tpc             \* "pick" | "done"

tvars == <<table, tpage, tidx, tout, tpc>>

VARIABLES
    \* ---- PDFExtractor.extract
    exists,             \* os.path.exists(pdf_path)
    pdf,                \* the pages of the document at pdf_path
    pc,                 \* the step of extract that runs next
    faults,             \* calls that raised so far in this run
    gone,               \* the file has become unreadable: every open raises
    logged,             \* the handlers that have logged an error or warning
    total_pages,        \* line 350
    is_text,            \* line 360
    extraction_method,  \* lines 371, 376
    all_tables,         \* line 363
    results             \* line 425, or NoResults

evars == <<exists, pdf, pc, faults, gone, logged, total_pages, is_text,
           extraction_method, all_tables, results>>

VARIABLES
    \* ---- type detection harness (PDFExtractor.is_text_based and
    \* is_text_based of enhanced_pdf_converter)
    ddoc,           \* the pages of the document, each with its text
    danswer,        \* the value returned, FALSE before the call
    denhanced,      \* the value the enhanced detector returned, FALSE before
    dlogged,        \* the handler of line 71 has logged an error
    dpc             \* "call" | "returned" | "compared"

dvars == <<ddoc, danswer, denhanced, dlogged, dpc>>

VARIABLES
    \* ---- OCR harness (extract_from_images and the two extract_text_ocr)
    routine,              \* which of the three routines runs
    tesseract_available,  \* the module-level flag of the two converters
    convertible,          \* convert_from_path succeeds on this document
    images,               \* per rasterized page: what recognition does
    temp_dir,             \* "none" | "live" | "released"
    recognized,           \* the pages whose lines were recorded so far
    opc                   \* "call" | "convert" | "pages" | "returned"

ovars == <<routine, tesseract_available, convertible, images, temp_dir,
           recognized, opc>>

VARIABLES
    \* ---- structure classifier harness (organize_syllabus_structure) and
    \* word reconstruction harness (reconstruct_words_to_sentences)
    cdf,            \* df, the extracted lines: rows of Page and Content
    organized,      \* the nodes returned, or NotRun
    reconstructed,  \* the lines that the reconstruction returned, or NotRun
    cpc             \* "call" | "returned" | "words" | "reconstructed"

cvars == <<cdf, organized, reconstructed, cpc>>

VARIABLES
    \* ---- syllabus converter harness (syllabus_pdf_to_excel, OCR path)
    sdf,            \* the lines that extract_text_ocr returned
    sorganized,     \* df after the first organize_syllabus_data, or NotRun
    sreturned,      \* the frame that syllabus_pdf_to_excel returned, or NotRun
    spc             \* "ocr" | "organized" | "returned"

svars == <<sdf, sorganized, sreturned, spc>>

\* the harnesses that the steps of the three above leave alone
xvars == <<dvars, ovars, cvars, svars>>

-----------------------------------------------------------------------------
(* Bounds *)
MaxHeaders == 3          \* longest header list drawn
MaxRows == 3             \* most rows of a raw table drawn for the table harness
MaxCols == 2             \* most cells of a row drawn for the table harness
MaxPages == 3            \* most pages of a document drawn
MaxFaults == 1           \* most calls that raise in one run of extract
MaxLines == 3            \* most lines of a frame handed to the classifier
MaxFrames == 2           \* most records handed to consolidate_tables

-----------------------------------------------------------------------------
(* Cells *)
I(n) == <<"int", n>>
S(s) == <<"str", s>>
NoneCell == <<"none">>
BadCell == <<"bad">>     \* an object whose str() raises
NotRun == <<"notrun">>

IsStr(c) == c[1] = "str"
IsInt(c) == c[1] = "int"

-----------------------------------------------------------------------------
(* Python string primitives *)
Char(s, i) == SubSeq(s, i, i)

Digits == "0123456789"

RECURSIVE ToStr(_)
\* str(n) for n >= 0
ToStr(n) == IF n < 10 THEN Char(Digits, n + 1)
            ELSE ToStr(n \div 10) \o Char(Digits, (n % 10) + 1)

Whitespace == {" ", "\n", "\r", "\t"}

IsSpace(c) == c \in Whitespace

RECURSIVE LStrip(_)
LStrip(s) == IF Len(s) > 0 /\ IsSpace(Char(s, 1))
             THEN LStrip(SubSeq(s, 2, Len(s))) ELSE s

RECURSIVE RStrip(_)
RStrip(s) == IF Len(s) > 0 /\ IsSpace(Char(s, Len(s)))
             THEN RStrip(SubSeq(s, 1, Len(s) - 1)) ELSE s

\* str.strip()
Strip(s) == RStrip(LStrip(s))

\* the least index of s at which a character of chars stands, 0 if none
FirstIndex(s, chars) ==
    LET hits == {k \in 1..Len(s) : Char(s, k) \in chars}
    IN IF hits = {} THEN 0 ELSE CHOOSE h \in hits : \A g \in hits : h <= g

RECURSIVE ReplaceChar(_, _, _)
\* str.replace(old, new) for a one-character old
ReplaceChar(s, old, new) ==
    LET k == FirstIndex(s, {old})
    IN IF k = 0 THEN s
       ELSE SubSeq(s, 1, k - 1) \o new
            \o ReplaceChar(SubSeq(s, k + 1, Len(s)), old, new)

RECURSIVE SplitWs(_)
\* str.split(): the maximal runs of non-whitespace characters, in order
SplitWs(s) ==
    LET k == FirstIndex(s, Whitespace)
        run == IF k = 0 THEN s ELSE SubSeq(s, 1, k - 1)
    IN (IF run = "" THEN <<>> ELSE <<run>>)
       \o (IF k = 0 THEN <<>> ELSE SplitWs(SubSeq(s, k + 1, Len(s))))

RECURSIVE Join(_, _)
\* sep.join(parts)
Join(sep, parts) ==
    IF Len(parts) = 0 THEN ""
    ELSE IF Len(parts) = 1 THEN parts[1]
    ELSE parts[1] \o sep \o Join(sep, Tail(parts))

RECURSIVE ReplaceAll(_, _, _)
\* for char in chars: s = s.replace(char, new)
ReplaceAll(s, chars, new) ==
    IF Len(chars) = 0 THEN s
    ELSE ReplaceAll(ReplaceChar(s, Head(chars), new), Tail(chars), new)

-----------------------------------------------------------------------------
(* PDFExtractor._clean_column_names *)
MaxHeaderLen == 50
KeptHeaderLen == 47
invalid_chars == <<"\\", "/", "*", "?", ":", "[", "]">>

\* f"Column_{i+1}" for the 0-based i of the code; pos is i+1
ColumnLabel(pos) == "Column_" \o ToStr(pos)

\* lines 266-285: the label of one cell before duplicates are handled
BaseHeader(header, pos) ==
    IF header = NoneCell THEN ColumnLabel(pos)
    ELSE LET stripped == Strip(header[2]) IN
         IF stripped = "" THEN ColumnLabel(pos)
         ELSE LET nonl == ReplaceChar(ReplaceChar(stripped, "\n", " "), "\r", " ")
                  collapsed == Join(" ", SplitWs(nonl))
                  valid == ReplaceAll(collapsed, invalid_chars, "_")
              IN IF Len(valid) > MaxHeaderLen
                 THEN SubSeq(valid, 1, KeptHeaderLen) \o "..."
                 ELSE valid

RECURSIVE Uniquify(_, _, _, _)

\* slip: a single attempt where the code loops
UniquifyOnce(header, original, counter, seen) ==
    IF header \in seen THEN original \o "_" \o ToStr(counter) ELSE header

\* slip: the counter starts one too high
UniquifyFromTwo(header, original, counter, seen) ==
    IF header \in seen
    THEN Uniquify(original \o "_" \o ToStr(counter + 1), original, counter + 2, seen)
    ELSE header

\* lines 288-292 (and 300-303): while header in seen: header = f"{original}_{counter}"
Uniquify(header, original, counter, seen) ==
    IF header \in seen
    THEN Uniquify(original \o "_" \o ToStr(counter), original, counter + 1, seen)
    ELSE header

\* one iteration of the loop of lines 264-306, the except branch included
CleanOne(header, pos, seen) ==
    IF header = BadCell
    THEN Uniquify(ColumnLabel(pos), ColumnLabel(pos), 1, seen)
    ELSE LET base == BaseHeader(header, pos)
         IN Uniquify(base, base, 1, seen)

RECURSIVE CleanLoop(_, _, _, _)
CleanLoop(hs, pos, cleaned_headers, seen_headers) ==
    IF pos > Len(hs) THEN cleaned_headers
    ELSE LET h == CleanOne(hs[pos], pos, seen_headers)
         IN CleanLoop(hs, pos + 1, Append(cleaned_headers, h),
                      seen_headers \cup {h})

_clean_column_names(hs) == CleanLoop(hs, 1, <<>>, {})

\* a list of strings as raw header cells
AsCells(labels) == [k \in 1..Len(labels) |-> S(labels[k])]

-----------------------------------------------------------------------------
(* DataFrames *)
DataFrame(rows, columns) == [columns |-> columns, rows |-> rows]

HasColumn(df, name) == \E k \in 1..Len(df.columns) : df.columns[k] = name

ColumnIndex(df, name) == CHOOSE k \in 1..Len(df.columns) : df.columns[k] = name

\* df[name] as the sequence of its cells, top to bottom
Column(df, name) == [r \in 1..Len(df.rows) |-> df.rows[r][ColumnIndex(df, name)]]

InsertAt(seq, loc, e) == SubSeq(seq, 1, loc) \o <<e>> \o SubSeq(seq, loc + 1, Len(seq))

\* df.insert(loc, name, value) with a scalar value; loc is 0-based
Insert(df, loc, name, value) ==
    [columns |-> InsertAt(df.columns, loc, name),
     rows |-> [r \in 1..Len(df.rows) |-> InsertAt(df.rows[r], loc, value)]]

\* df[name] = value with a scalar value: overwrite, or append a new column
SetColumn(df, name, value) ==
    IF HasColumn(df, name)
    THEN [columns |-> df.columns,
          rows |-> [r \in 1..Len(df.rows) |->
                      [df.rows[r] EXCEPT ![ColumnIndex(df, name)] = value]]]
    ELSE Insert(df, Len(df.columns), name, value)

\* slip: the metadata is assigned without looking for an existing column
AddMetadataOverwrite(df, page_num, table_index) ==
    SetColumn(SetColumn(df, "Page", I(page_num)), "Table_Index", I(table_index))

\* lines 129-133 (also 151-154, 176-179, 239-242): metadata columns
AddMetadata(df, page_num, table_index) ==
    LET withPage == IF ~HasColumn(df, "Page")
                    THEN Insert(df, 0, "Page", I(page_num)) ELSE df
    IN IF ~HasColumn(withPage, "Table_Index")
       THEN Insert(withPage, 1, "Table_Index", I(table_index)) ELSE withPage

-----------------------------------------------------------------------------
(* extract_text_tables, the body of the loop over one page's tables *)

\* line 107: cell is not None and str(cell).strip()
CellHasContent(cell) == cell # NoneCell /\ Strip(cell[2]) # ""

\* line 107: row and any(...)
RowHasContent(row) == Len(row) > 0 /\ \E k \in 1..Len(row) : CellHasContent(row[k])

\* lines 105-108
FilterRows(tbl) == SelectSeq(tbl, RowHasContent)

\* slip: the single surviving row is promoted to header like any first row
TableFrameAlwaysHeader(filtered_table) ==
    DataFrame(Tail(filtered_table), _clean_column_names(filtered_table[1]))

\* lines 112-127: the DataFrame of a table that kept at least one row
TableFrame(filtered_table) ==
    IF Len(filtered_table) = 1
    THEN DataFrame(<<filtered_table[1]>>,
                   [k \in 1..Len(filtered_table[1]) |-> ColumnLabel(k)])
    ELSE DataFrame(Tail(filtered_table), _clean_column_names(filtered_table[1]))

\* lines 103-135: what one raw table appends to `tables`
ProcessTable(tbl, page_num, table_idx) ==
    IF Len(tbl) > 0 /\ Len(FilterRows(tbl)) > 0
    THEN <<AddMetadata(TableFrame(FilterRows(tbl)), page_num, table_idx + 1)>>
    ELSE <<>>

-----------------------------------------------------------------------------
(* Raw tables drawn for the table harness: rectangular, as the PDF reader *)
(* returns them, cells None or strings                                    *)
HeaderRowCells == { S(" "), S("x"), S("Page"), S("Table_Index") }
DataRowCells == { NoneCell, S("7") }

\* the sequences of length n over a set
SeqsOfLen(set, n) == [1..n -> set]

\* a first row that may carry header names, then rows of data cells
TablesOfShape(w, k) ==
    IF k = 0 THEN {<<>>}
    ELSE { <<first>> \o rest : first \in SeqsOfLen(HeaderRowCells, w),
                               rest \in SeqsOfLen(SeqsOfLen(DataRowCells, w), k - 1) }

-----------------------------------------------------------------------------
(* The document as the PDF reader and the OCR engine present it.  A page is *)
(* [tables, text, words, images, annots, ocr]: extract_tables(),           *)
(* extract_text() (None or a string), extract_words(), .images, .annots,   *)
(* and what image_to_string returns for the rasterized page.               *)

NoFault == 0 - 1     \* a call runs without raising
AtOpen == 0          \* the fault position "opening the document raises"

\* text and text.strip() / not text: Python truth of an optional string
Truthy(text) == text # NoneCell /\ text[2] # ""

RECURSIVE SplitOn(_, _)
\* str.split(sep) for a separator that occurs in s only whole
SplitOn(s, sep) ==
    LET w == Len(sep)
        hits == {k \in 1..(Len(s) - w + 1) : SubSeq(s, k, k + w - 1) = sep}
    IN IF hits = {} THEN <<s>>
       ELSE LET k == CHOOSE h \in hits : \A g \in hits : h <= g
            IN <<SubSeq(s, 1, k - 1)>> \o SplitOn(SubSeq(s, k + w, Len(s)), sep)

NonEmpty(s) == s # ""

\* [part.strip() for part in s.split(sep) if part.strip()]
StrippedParts(s, sep) ==
    LET parts == SplitOn(s, sep)
    IN SelectSeq([k \in 1..Len(parts) |-> Strip(parts[k])], NonEmpty)

\* [line.strip() for line in text.split('\n') if line.strip()]
TextLines(s) == StrippedParts(s, "\n")

\* the union of table['Page'].unique() over the tables that have the column
PagesOf(tables) ==
    UNION { {Column(tables[t], "Page")[r] : r \in 1..Len(tables[t].rows)} :
            t \in {u \in 1..Len(tables) : HasColumn(tables[u], "Page")} }

RECURSIVE Flatten(_)
\* the concatenation of a sequence of sequences
Flatten(seqs) == IF Len(seqs) = 0 THEN <<>> ELSE Head(seqs) \o Flatten(Tail(seqs))

\* pd.DataFrame({'Text': lines}) with the metadata columns (lines 150-154)
TextFrame(lines, page_num) ==
    AddMetadata(DataFrame([k \in 1..Len(lines) |-> <<S(lines[k])>>], <<"Text">>),
                page_num, 1)

\* lines 146-155 (and 171-180): the text of a page as one frame, if any
PageTextFrames(page, page_num) ==
    IF Truthy(page.text) /\ TextLines(page.text[2]) # <<>>
    THEN <<TextFrame(TextLines(page.text[2]), page_num)>>
    ELSE <<>>

-----------------------------------------------------------------------------
(* PDFExtractor.is_text_based, lines 64-73.  fault: NoFault, AtOpen, or the *)
(* page whose extract_text() raises                                        *)
MinTextLength == 50

\* slip: a page of exactly MinTextLength characters counts as text
HasEnoughTextAtLeast(page) ==
    Truthy(page.text) /\ Len(Strip(page.text[2])) >= MinTextLength

HasEnoughText(page) ==
    Truthy(page.text) /\ Len(Strip(page.text[2])) > MinTextLength

is_text_based(doc, fault) ==
    LET read == IF fault = NoFault THEN Len(doc)
                ELSE IF fault = AtOpen THEN 0 ELSE fault - 1
    IN \E p \in 1..read : HasEnoughText(doc[p])

RECURSIVE total_text_length(_)
\* src/enhanced_pdf_converter.py, lines 66-70
total_text_length(doc) ==
    IF doc = <<>> THEN 0
    ELSE (IF Truthy(Head(doc).text) THEN Len(Strip(Head(doc).text[2])) ELSE 0)
           + total_text_length(Tail(doc))

\* is_text_based of src/enhanced_pdf_converter.py, lines 62-76, with
\* MIN_TEXT_LENGTH = 50 (line 33); the loop reads every page, so that a
\* failure anywhere ends in the handler of line 74
enhanced_is_text_based(doc, fault) ==
    IF fault # NoFault THEN FALSE
    ELSE total_text_length(doc) > MinTextLength

-----------------------------------------------------------------------------
(* PDFExtractor.extract_text_tables, lines 85-200.  flt is                  *)
(* [outer, fallback, table, text]: outer = AtOpen or the page whose        *)
(* extract_tables() raises (caught at line 164); fallback = the same for   *)
(* the fallback loop of lines 169-181; table = the page whose first table  *)
(* raises while being processed (caught at line 138); text = the page      *)
(* whose extract_text() raises at line 146 (caught at line 161)            *)

\* lines 101-141: the frames of one page's tables
PageTableFrames(page, page_num, flt) ==
    Flatten([k \in 1..Len(page.tables) |->
               IF flt.table = page_num /\ k = 1 THEN <<>>
               ELSE ProcessTable(page.tables[k], page_num, k - 1)])

\* lines 93-162: one iteration of the loop over the pages
TablesOfPage(page, page_num, flt) ==
    LET found == PageTableFrames(page, page_num, flt)
    IN IF found # <<>> THEN found
       ELSE IF flt.text = page_num THEN <<>>
       ELSE PageTextFrames(page, page_num)

\* lines 196: the placeholder of a page without any entry
NoContentFrame(page_num) ==
    DataFrame(<< <<I(page_num), I(1), S("[No extractable content]")>> >>,
              <<"Page", "Table_Index", "Text">>)

\* lines 185-198; the guard compares the number of frames with the number
\* of pages
EnsureEntries(tables, page_count) ==
    IF Len(tables) < page_count
    THEN LET missing == {p \in 1..page_count : I(p) \notin PagesOf(tables)}
         IN tables \o Flatten([p \in 1..page_count |->
                                 IF p \in missing THEN <<NoContentFrame(p)>> ELSE <<>>])
    ELSE tables

extract_text_tables(doc, flt) ==
    LET page_count == IF flt.outer = AtOpen THEN 0 ELSE Len(doc)
        done == IF flt.outer = NoFault THEN Len(doc) ELSE
                IF flt.outer = AtOpen THEN 0 ELSE flt.outer - 1
        main == Flatten([p \in 1..done |-> TablesOfPage(doc[p], p, flt)])
        fbdone == IF flt.outer = NoFault THEN 0 ELSE
                  IF flt.fallback = NoFault THEN Len(doc) ELSE
                  IF flt.fallback = AtOpen THEN 0 ELSE flt.fallback - 1
        fb == Flatten([p \in 1..fbdone |-> PageTextFrames(doc[p], p)])
    IN EnsureEntries(main \o fb, page_count)

-----------------------------------------------------------------------------
(* PDFExtractor.extract_from_images, lines 212-249, with _parse_ocr_text,   *)
(* lines 320-331.  fault: NoFault, AtOpen (convert_from_path raises), or   *)
(* the page whose recognition raises; the exception handler of line 246    *)
(* keeps the frames appended so far                                        *)

\* lines 324-331; None is the empty list here, both are falsy at line 228
_parse_ocr_text(lines) ==
    LET columns == [k \in 1..Len(lines) |-> StrippedParts(lines[k], "  ")]
    IN SelectSeq(columns, LAMBDA c : Len(c) > 1)

\* lines 222-243: the frames of one rasterized page (i is 0-based)
ImageFrames(page, i) ==
    LET lines == TextLines(page.ocr)
        data == _parse_ocr_text(lines)
        df == IF data # <<>>
              THEN DataFrame([r \in 1..(Len(data) - 1) |->
                                [c \in 1..Len(data[r + 1]) |-> S(data[r + 1][c])]],
                             _clean_column_names(AsCells(data[1])))
              ELSE DataFrame([k \in 1..Len(lines) |-> <<S(lines[k])>>], <<"Text">>)
    IN IF lines # <<>> THEN <<AddMetadata(df, i + 1, 1)>> ELSE <<>>

extract_from_images(doc, fault) ==
    LET done == IF fault = NoFault THEN Len(doc)
                ELSE IF fault = AtOpen THEN 0 ELSE fault - 1
    IN Flatten([p \in 1..done |-> ImageFrames(doc[p], p - 1)])

-----------------------------------------------------------------------------
(* PDFExtractor.extract_all_text_comprehensive, lines 503-569.  fault:      *)
(* NoFault, AtOpen, or the page whose extract_text()/extract_words()       *)
(* raises; the handler of line 566 keeps the frames appended so far        *)

TextLineColumns ==
    <<"Page", "Content_Type", "Text", "Line_Number", "Extraction_Method">>
WordColumns ==
    <<"Page", "Content_Type", "Text", "X", "Y", "Width", "Height",
      "Line_Number", "Extraction_Method">>

\* lines 516-531
TextLineFrames(page, page_num) ==
    IF Truthy(page.text) /\ TextLines(page.text[2]) # <<>>
    THEN LET lines == TextLines(page.text[2])
         IN <<DataFrame([k \in 1..Len(lines) |->
                           <<I(page_num), S("Text_Line"), S(lines[k]), I(k),
                             S("pdfplumber_text")>>],
                        TextLineColumns)>>
    ELSE <<>>

\* lines 534-552
WordFrames(page, page_num) ==
    IF page.words # <<>>
    THEN <<DataFrame([k \in 1..Len(page.words) |->
                        <<I(page_num), S("Word"), S(page.words[k].text),
                          I(page.words[k].x0), I(page.words[k].top),
                          I(page.words[k].width), I(page.words[k].height),
                          I(k), S("pdfplumber_words")>>],
                     WordColumns)>>
    ELSE <<>>

\* lines 555-564
NoTextFrames(page, page_num) ==
    IF ~Truthy(page.text) /\ page.words = <<>>
    THEN <<DataFrame(<< <<I(page_num), S("No_Text_Content"),
                          S("[No text content found on this page]"), I(1),
                          S("pdfplumber_empty")>> >>,
                     TextLineColumns)>>
    ELSE <<>>

\* slip: the empty-page marker of lines 555-564 is left out
ComprehensivePageNoMarker(page, page_num) ==
    TextLineFrames(page, page_num) \o WordFrames(page, page_num)

\* lines 506-564: one iteration of the loop over the pages
ComprehensivePage(page, page_num) ==
    TextLineFrames(page, page_num) \o WordFrames(page, page_num)
        \o NoTextFrames(page, page_num)

extract_all_text_comprehensive(doc, fault) ==
    LET done == IF fault = NoFault THEN Len(doc)
                ELSE IF fault = AtOpen THEN 0 ELSE fault - 1
    IN Flatten([p \in 1..done |-> ComprehensivePage(doc[p], p)])

-----------------------------------------------------------------------------
(* PDFExtractor.extract_remaining_content, lines 581-630.  fault: NoFault,  *)
(* AtOpen, or the page whose .images raises                                *)

\* lines 588-606
ImageRecordFrames(page, page_num) ==
    IF page.images # <<>>
    THEN <<DataFrame([k \in 1..Len(page.images) |->
                        <<I(page_num), S("Image"),
                          S("[Image " \o ToStr(k) \o ": "
                              \o ToStr(page.images[k].width) \o "x"
                              \o ToStr(page.images[k].height) \o "]"),
                          I(page.images[k].x0), I(page.images[k].top),
                          I(page.images[k].width), I(page.images[k].height),
                          S("pdfplumber_images")>>],
                     <<"Page", "Content_Type", "Text", "X", "Y", "Width",
                       "Height", "Extraction_Method">>)>>
    ELSE <<>>

\* lines 609-625
AnnotationFrames(page, page_num) ==
    IF page.annots # <<>>
    THEN <<DataFrame([k \in 1..Len(page.annots) |->
                        <<I(page_num), S("Annotation"),
                          S("[Annotation " \o ToStr(k) \o ": "
                              \o page.annots[k].subtype \o "]"),
                          I(page.annots[k].x0), I(page.annots[k].top),
                          S("pdfplumber_annotations")>>],
                     <<"Page", "Content_Type", "Text", "X", "Y",
                       "Extraction_Method">>)>>
    ELSE <<>>

extract_remaining_content(doc, fault) ==
    LET done == IF fault = NoFault THEN Len(doc)
                ELSE IF fault = AtOpen THEN 0 ELSE fault - 1
    IN Flatten([p \in 1..done |->
                  ImageRecordFrames(doc[p], p) \o AnnotationFrames(doc[p], p)])

-----------------------------------------------------------------------------
(* PDFExtractor.extract_page_content, lines 643-686: the frames found for   *)
(* one page on retry; the empty sequence stands for None.  failed: the     *)
(* retry raised and was caught at line 683                                 *)
RemainingColumns == <<"Page", "Content_Type", "Text", "Extraction_Method">>
MaxRemainingText == 500

extract_page_content(doc, page_num, failed) ==
    IF failed \/ page_num > Len(doc) THEN <<>>
    ELSE LET page == doc[page_num]
             text == page.text
             t == IF Truthy(text)
                  THEN << <<I(page_num), S("Remaining_Text"),
                            S(IF Len(text[2]) > MaxRemainingText
                              THEN SubSeq(text[2], 1, MaxRemainingText) \o "..."
                              ELSE text[2]),
                            S("page_specific_text")>> >>
                  ELSE <<>>
             w == IF page.words # <<>>
                  THEN << <<I(page_num), S("Remaining_Words"),
                            S("[Found " \o ToStr(Len(page.words)) \o " words]"),
                            S("page_specific_words")>> >>
                  ELSE <<>>
             g == IF page.images # <<>>
                  THEN << <<I(page_num), S("Remaining_Images"),
                            S("[Found " \o ToStr(Len(page.images)) \o " images]"),
                            S("page_specific_images")>> >>
                  ELSE <<>>
         IN IF t \o w \o g # <<>>
            THEN <<DataFrame(t \o w \o g, RemainingColumns)>>
            ELSE <<>>

-----------------------------------------------------------------------------
(* PDFExtractor.extract, step 4, lines 388-412 *)

\* lines 405-410
EmptyPageFrame(page_num) ==
    DataFrame(<< <<I(page_num), S("Empty_Page"),
                   S("[Page " \o ToStr(page_num) \o " - No extractable content found]"),
                   S("No_Content")>> >>,
              <<"Page", "Content_Type", "Text", "Extraction_Status">>)

\* lines 389-395
MissingPages(tables, page_count) ==
    {p \in 1..page_count : I(p) \notin PagesOf(tables)}

\* line 401, `if page_content:`: bool() of a DataFrame raises ValueError
\* ("The truth value of a DataFrame is ambiguous"); None is falsy
TruthValueRaises(page_content) == page_content # <<>>

\* slip: the placeholder of lines 403-411 is forgotten
CoverPageNoPlaceholder(doc, page_num, failed) ==
    [raised |-> TruthValueRaises(extract_page_content(doc, page_num, failed)),
     frames |-> <<>>]

\* lines 398-411 for one missing page: the test of line 401 raises when the
\* retry returned a frame, and the placeholder is appended when it
\* returned None
CoverPage(doc, page_num, failed) ==
    LET page_content == extract_page_content(doc, page_num, failed)
    IN IF TruthValueRaises(page_content)
       THEN [raised |-> TRUE, frames |-> <<>>]
       ELSE [raised |-> FALSE, frames |-> <<EmptyPageFrame(page_num)>>]

\* the first missing page at which line 401 raises, 0 if none; the pages
\* of the set are visited in ascending order, as CPython iterates a set of
\* small integers; failing is the set of pages whose retry raised inside
\* extract_page_content
RaisingPage(doc, tables, page_count, failing) ==
    LET hits == {p \in MissingPages(tables, page_count) :
                    CoverPage(doc, p, p \in failing).raised}
    IN IF hits = {} THEN 0 ELSE CHOOSE h \in hits : \A g \in hits : h <= g

\* the missing pages that the loop of line 398 reaches
VisitedPages(doc, tables, page_count, failing) ==
    LET q == RaisingPage(doc, tables, page_count, failing)
    IN {p \in MissingPages(tables, page_count) : q = 0 \/ p <= q}

\* lines 395-412: all_tables when the loop ends or is left by the exception
Reconciled(doc, tables, page_count, failing) ==
    LET visited == VisitedPages(doc, tables, page_count, failing)
    IN tables \o Flatten([p \in 1..page_count |->
                            IF p \in visited
                            THEN CoverPage(doc, p, p \in failing).frames
                            ELSE <<>>])

-----------------------------------------------------------------------------
(* PDFExtractor.consolidate_tables, lines 699-738 *)
SummaryColumns ==
    <<"Page", "Content_Type", "Text", "Total_Items", "Content_Types",
      "Extraction_Method">>

\* ', '.join(set(content_types)): the order of a set of strings is not
\* fixed, the cell is kept as the set that is joined
Joined(types) == <<"joined", types>>

\* lines 705-730: the summary row of one page
SummaryRow(frames, page_num) ==
    LET page_tables ==
            SelectSeq(frames,
                      LAMBDA t : HasColumn(t, "Page")
                                 /\ \E r \in 1..Len(t.rows) : Column(t, "Page")[r] = I(page_num))
        total_rows == Len(Flatten([k \in 1..Len(page_tables) |-> page_tables[k].rows]))
        content_types ==
            UNION { {Column(page_tables[k], "Content_Type")[r] :
                        r \in 1..Len(page_tables[k].rows)} :
                    k \in {j \in 1..Len(page_tables) :
                             HasColumn(page_tables[j], "Content_Type")} }
    IN IF page_tables # <<>>
       THEN <<I(page_num), S("Page_Summary"),
              <<"summary", page_num, total_rows, Joined(content_types)>>,
              I(total_rows), Joined(content_types), S("consolidated_summary")>>
       ELSE <<I(page_num), S("Page_Summary"),
              S("Page " \o ToStr(page_num) \o ": No content extracted"),
              I(0), S("None"), S("consolidated_summary")>>

consolidate_tables(frames, page_count) ==
    IF frames = <<>> THEN <<>>
    ELSE <<DataFrame([p \in 1..page_count |-> SummaryRow(frames, p)],
                     \* pd.DataFrame([]) has no columns
                     IF page_count > 0 THEN SummaryColumns ELSE <<>>)>> \o frames

-----------------------------------------------------------------------------
(* Header lists drawn for the sanitizer *)
Long50 == "Quarterly_Revenue_By_Region_And_Product_Line_20255"
Long51 == "Quarterly_Revenue_By_Region_And_Product_Line_202556"

HeaderCells ==
    { NoneCell, BadCell, S(""), S("  "), S("Name"), S(" Name\n"),
      S("Name_1"), S("Column_2"), S("a/b  c"), S(Long50), S(Long51) }

HdrIdle ==
    /\ headers = <<>>
    /\ cleaned = NotRun
    /\ recleaned = NotRun
    /\ hpc = "idle"

TblIdle ==
    /\ table = <<>>
    /\ tpage = 0
    /\ tidx = 0
    /\ tout = NotRun
    /\ tpc = "idle"

ExtractIdle ==
    /\ exists = FALSE
    /\ pdf = <<>>
    /\ pc = "idle"
    /\ faults = 0
    /\ gone = FALSE
    /\ logged = {}
    /\ total_pages = 0
    /\ is_text = FALSE
    /\ extraction_method = ""
    /\ all_tables = <<>>
    /\ results = <<"noresults">>

DetIdle ==
    /\ ddoc = <<>>
    /\ danswer = FALSE
    /\ denhanced = FALSE
    /\ dlogged = FALSE
    /\ dpc = "idle"

OcrIdle ==
    /\ routine = "none"
    /\ tesseract_available = FALSE
    /\ convertible = FALSE
    /\ images = <<>>
    /\ temp_dir = "none"
    /\ recognized = <<>>
    /\ opc = "idle"

SylIdle ==
    /\ sdf = <<>>
    /\ sorganized = NotRun
    /\ sreturned = NotRun
    /\ spc = "idle"

ClsIdle ==
    /\ cdf = <<>>
    /\ organized = NotRun
    /\ reconstructed = NotRun
    /\ cpc = "idle"

InitHdr ==
    /\ \E n \in 0..MaxHeaders : headers \in SeqsOfLen(HeaderCells, n)
    /\ cleaned = NotRun
    /\ recleaned = NotRun
    /\ hpc = "pick"
    /\ TblIdle
    /\ ExtractIdle
    /\ DetIdle
    /\ OcrIdle
    /\ ClsIdle
    /\ SylIdle

Clean ==
    /\ hpc = "pick"
    /\ cleaned' = _clean_column_names(headers)
    /\ hpc' = "cleaned"
    /\ UNCHANGED <<headers, recleaned>>
    /\ UNCHANGED <<tvars, evars, xvars>>

CleanAgain ==
    /\ hpc = "cleaned"
    /\ recleaned' = _clean_column_names(AsCells(cleaned))
    /\ hpc' = "recleaned"
    /\ UNCHANGED <<headers, cleaned>>
    /\ UNCHANGED <<tvars, evars, xvars>>

NextHdr == Clean \/ CleanAgain

vars == <<hvars, tvars, evars, dvars, ovars, cvars, svars>>

SpecHdr == InitHdr /\ [][NextHdr]_vars

-----------------------------------------------------------------------------
(* Table harness *)
InitTbl ==
    /\ \E w \in 1..MaxCols, k \in 0..MaxRows : table \in TablesOfShape(w, k)
    /\ tpage = 2
    /\ tidx = 0
    /\ tout = NotRun
    /\ tpc = "pick"
    /\ HdrIdle
    /\ ExtractIdle
    /\ DetIdle
    /\ OcrIdle
    /\ ClsIdle
    /\ SylIdle

DoTable ==
    /\ tpc = "pick"
    /\ tout' = ProcessTable(table, tpage, tidx)
    /\ tpc' = "done"
    /\ UNCHANGED <<table, tpage, tidx>>
    /\ UNCHANGED <<hvars, evars, xvars>>

NextTbl == DoTable

SpecTbl == InitTbl /\ [][NextTbl]_vars

-----------------------------------------------------------------------------
(* Type detection harness: is_text_based on documents whose pages have no  *)
(* text, empty text, short text, and text of exactly and just over the     *)
(* threshold with white space around it                                    *)

PageWithText(text) ==
    [tables |-> <<>>, text |-> text, words |-> <<>>, images |-> <<>>,
     annots |-> <<>>, ocr |-> ""]

DetPages ==
    {PageWithText(NoneCell), PageWithText(S("")), PageWithText(S(" Unit 1\n")),
     PageWithText(S(" " \o Long50 \o "\n")), PageWithText(S(" " \o Long51 \o " "))}

InitDet ==
    /\ ddoc \in UNION {[1..n -> DetPages] : n \in 0..MaxPages}
    /\ danswer = FALSE
    /\ denhanced = FALSE
    /\ dlogged = FALSE
    /\ dpc = "call"
    /\ HdrIdle
    /\ TblIdle
    /\ ExtractIdle
    /\ OcrIdle
    /\ ClsIdle
    /\ SylIdle

\* lines 64-73; fault: pdfplumber.open or the extract_text() of a page that
\* the loop reaches raises
Detect ==
    /\ dpc = "call"
    /\ \E fault \in {NoFault} \cup 0..Len(ddoc) :
          /\ fault = NoFault \/ ~is_text_based(ddoc, fault)
          /\ danswer' = is_text_based(ddoc, fault)
          /\ dlogged' = (fault # NoFault)
    /\ dpc' = "returned"
    /\ UNCHANGED <<ddoc, denhanced>>
    /\ UNCHANGED <<hvars, tvars, evars, ovars, cvars, svars>>

NextDet == Detect

SpecDet == InitDet /\ [][NextDet]_vars

\* both detectors on the same document; bad: pdfplumber.open or the
\* extract_text() of that page raises for whoever calls it
DetectBoth ==
    /\ dpc = "call"
    /\ \E bad \in {NoFault} \cup 0..Len(ddoc) :
          /\ danswer' = is_text_based(ddoc, bad)
          /\ dlogged' = (bad # NoFault /\ ~is_text_based(ddoc, bad))
          /\ denhanced' = enhanced_is_text_based(ddoc, bad)
    /\ dpc' = "compared"
    /\ UNCHANGED ddoc
    /\ UNCHANGED <<hvars, tvars, evars, ovars, cvars, svars>>

NextCmp == DetectBoth

SpecCmp == InitDet /\ [][NextCmp]_vars

-----------------------------------------------------------------------------
(* OCR harness: the temporary directory of the rasterized page images in   *)
(* PDFExtractor.extract_from_images (src/core/extractor.py, lines 212-249) *)
(* and in extract_text_ocr of src/pdf_to_excel_app.py (lines 349-381) and  *)
(* of src/syllabus_pdf_converter.py (lines 150-182)                        *)

Routines == {"extract_from_images", "app_extract_text_ocr", "syllabus_extract_text_ocr"}

\* the routine holds the directory in a `with TemporaryDirectory()`
\* (extractor.py, line 214); the other two call tempfile.mkdtemp()
UsesContextManager(r) == r = "extract_from_images"

\* what pytesseract.image_to_string does on a page image
Recognitions == {"lines", "blank", "raises"}

InitOcr ==
    /\ routine \in Routines
    /\ tesseract_available \in BOOLEAN
    /\ UsesContextManager(routine) => tesseract_available
    /\ convertible \in BOOLEAN
    /\ images \in UNION {[1..n -> Recognitions] : n \in 0..MaxPages}
    /\ temp_dir = "none"
    /\ recognized = <<>>
    /\ opc = "call"
    /\ HdrIdle
    /\ TblIdle
    /\ ExtractIdle
    /\ DetIdle
    /\ ClsIdle
    /\ SylIdle

\* the directory when control leaves the block that created it: the context
\* manager removes it, nothing removes the one of mkdtemp
Leave(r, dir) == IF UsesContextManager(r) /\ dir = "live" THEN "released" ELSE dir

\* extractor.py 213-214; pdf_to_excel_app.py 351-356;
\* syllabus_pdf_converter.py 152-157
OcrEnter ==
    /\ opc = "call"
    /\ IF ~UsesContextManager(routine) /\ ~tesseract_available
       THEN opc' = "returned" /\ temp_dir' = temp_dir
       ELSE opc' = "convert" /\ temp_dir' = "live"
    /\ UNCHANGED <<routine, tesseract_available, convertible, images, recognized>>
    /\ UNCHANGED <<hvars, tvars, evars, dvars, cvars, svars>>

\* convert_from_path: extractor.py 216 (handler 246);
\* pdf_to_excel_app.py 359 (handler 379); syllabus_pdf_converter.py 160
\* (handler 180)
OcrConvert ==
    /\ opc = "convert"
    /\ IF convertible
       THEN opc' = "pages" /\ temp_dir' = temp_dir
       ELSE opc' = "returned" /\ temp_dir' = Leave(routine, temp_dir)
    /\ UNCHANGED <<routine, tesseract_available, convertible, images, recognized>>
    /\ UNCHANGED <<hvars, tvars, evars, dvars, cvars, svars>>

\* one iteration of the loop over the images: extractor.py 218-243, where a
\* raise leaves the loop for the handler of line 246; pdf_to_excel_app.py
\* 362-374 and syllabus_pdf_converter.py 163-175, where the handler inside
\* the loop goes on with the next page
OcrPage ==
    /\ opc = "pages"
    /\ Len(recognized) < Len(images)
    /\ LET page_num == Len(recognized) + 1
           outcome == images[page_num]
       IN /\ recognized' = Append(recognized, outcome = "lines")
          /\ IF outcome = "raises" /\ UsesContextManager(routine)
             THEN opc' = "returned" /\ temp_dir' = Leave(routine, temp_dir)
             ELSE opc' = opc /\ temp_dir' = temp_dir
    /\ UNCHANGED <<routine, tesseract_available, convertible, images>>
    /\ UNCHANGED <<hvars, tvars, evars, dvars, cvars, svars>>

\* the return after the last image: extractor.py 249;
\* pdf_to_excel_app.py 376-378; syllabus_pdf_converter.py 177-179
OcrReturn ==
    /\ opc = "pages"
    /\ Len(recognized) = Len(images)
    /\ opc' = "returned"
    /\ temp_dir' = Leave(routine, temp_dir)
    /\ UNCHANGED <<routine, tesseract_available, convertible, images, recognized>>
    /\ UNCHANGED <<hvars, tvars, evars, dvars, cvars, svars>>

NextOcr ==
    \/ OcrEnter
    \/ OcrConvert
    \/ OcrPage
    \/ OcrReturn

SpecOcr == InitOcr /\ [][NextOcr]_vars

-----------------------------------------------------------------------------
(* Regular expressions of the structure classifier, as re.match applies    *)
(* them with re.IGNORECASE to a line without line breaks: a pattern is a   *)
(* sequence of components, each an alternation of fixed character-class    *)
(* sequences, a greedy repetition of a character class, or the final       *)
(* (.+)$; src/pdf_to_excel_app.py, lines 196-204, 244-252, 286-290         *)

LowerCase == "abcdefghijklmnopqrstuvwxyz"
UpperCase == "ABCDEFGHIJKLMNOPQRSTUVWXYZ"

CharsOf(s) == {Char(s, k) : k \in 1..Len(s)}
Letters == CharsOf(LowerCase) \cup CharsOf(UpperCase)
DigitChars == CharsOf(Digits)

\* the characters that c matches under re.IGNORECASE
Fold(c) ==
    LET hits == {k \in 1..Len(LowerCase) : c \in {Char(LowerCase, k), Char(UpperCase, k)}}
    IN IF hits = {} THEN {c}
       ELSE LET k == CHOOSE h \in hits : TRUE
            IN {Char(LowerCase, k), Char(UpperCase, k)}

\* stands for the bullet character U+2022 of lines 147 and 245
Bullet == "@"

Unbounded == 0 - 1

\* a literal word
Lit(w) == [kind |-> "alt", alts |-> << [k \in 1..Len(w) |-> Fold(Char(w, k))] >>,
           set |-> {}, min |-> 0, max |-> 0]
\* ( a | b | ... ), each alternative a sequence of character classes
Alt(alts) == [kind |-> "alt", alts |-> alts, set |-> {}, min |-> 0, max |-> 0]
\* class{min,max}, greedy
Rep(set, min, max) == [kind |-> "rep", alts |-> <<>>, set |-> set, min |-> min, max |-> max]
\* (.+)$
Rest == [kind |-> "rest", alts |-> <<>>, set |-> {}, min |-> 0, max |-> 0]

Spaces0 == Rep(Whitespace, 0, Unbounded)
Spaces1 == Rep(Whitespace, 1, Unbounded)
Number == Rep(DigitChars, 1, Unbounded)
Opt(set) == Rep(set, 0, 1)

\* the number of characters of s from pos on that are in set, at most max
Run(s, pos, set, max) ==
    LET stop == {r \in 0..(Len(s) - pos + 1) :
                    \/ r = Len(s) - pos + 1
                    \/ Char(s, pos + r) \notin set}
        r0 == CHOOSE r \in stop : \A q \in stop : r <= q
    IN IF max # Unbounded /\ r0 > max THEN max ELSE r0

\* the alternative alt stands in s at pos
Fits(s, pos, alt) ==
    /\ pos + Len(alt) - 1 <= Len(s)
    /\ \A k \in 1..Len(alt) : Char(s, pos + k - 1) \in alt[k]

RECURSIVE Match(_, _, _, _)
\* the positions after each of the components k.. of the first match that
\* the backtracking search finds with component k starting at pos (longest
\* repetition first, alternatives in order); <<>> if there is none
Match(comps, s, k, pos) ==
    LET c == comps[k]
    IN IF c.kind = "rest"
       THEN IF pos <= Len(s) THEN <<Len(s) + 1>> ELSE <<>>
       ELSE IF c.kind = "rep"
       THEN LET ok == {r \in c.min..Run(s, pos, c.set, c.max) :
                          Match(comps, s, k + 1, pos + r) # <<>>}
            IN IF ok = {} THEN <<>>
               ELSE LET r == CHOOSE a \in ok : \A b \in ok : a >= b
                    IN <<pos + r>> \o Match(comps, s, k + 1, pos + r)
       ELSE LET ok == {a \in 1..Len(c.alts) :
                          /\ Fits(s, pos, c.alts[a])
                          /\ Match(comps, s, k + 1, pos + Len(c.alts[a])) # <<>>}
            IN IF ok = {} THEN <<>>
               ELSE LET a == CHOOSE x \in ok : \A y \in ok : x <= y
                        next == pos + Len(c.alts[a])
                    IN <<next>> \o Match(comps, s, k + 1, next)

\* re.match(pattern, content, re.IGNORECASE): the positions, <<>> for None
re_match(pattern, content) == Match(pattern.comps, content, 1, 1)

\* match.group(g)
Group(pattern, content, match, g) ==
    LET from == pattern.groups[g][1]
        to == pattern.groups[g][2]
        start == IF from = 1 THEN 1 ELSE match[from - 1]
    IN SubSeq(content, start, match[to] - 1)

\* `sub in s`
Contains(s, sub) ==
    \E k \in 1..(Len(s) - Len(sub) + 1) : SubSeq(s, k, k + Len(sub) - 1) = sub

Pattern(source, comps, groups) == [source |-> source, comps |-> comps, groups |-> groups]

\* lines 196-204
unit_patterns ==
    << Pattern("^(\\d+)\\.?\\s*(.+)$",
               <<Number, Opt({"."}), Spaces0, Rest>>, << <<1, 1>>, <<4, 4>> >>),
       Pattern("^Unit\\s+(\\d+)[:\\.]?\\s*(.+)$",
               <<Lit("Unit"), Spaces1, Number, Opt({":", "."}), Spaces0, Rest>>,
               << <<3, 3>>, <<6, 6>> >>),
       Pattern("^([IVX]+)\\.?\\s*(.+)$",
               <<Rep(CharsOf("IVXivx"), 1, Unbounded), Opt({"."}), Spaces0, Rest>>,
               << <<1, 1>>, <<4, 4>> >>),
       Pattern("^Chapter\\s+(\\d+)[:\\.]?\\s*(.+)$",
               <<Lit("Chapter"), Spaces1, Number, Opt({":", "."}), Spaces0, Rest>>,
               << <<3, 3>>, <<6, 6>> >>),
       Pattern("^PAPER[-\\s]?(\\d+)[:\\.]?\\s*(.+)$",
               <<Lit("PAPER"), Opt({"-"} \cup Whitespace), Number, Opt({":", "."}),
                 Spaces0, Rest>>,
               << <<3, 3>>, <<6, 6>> >>),
       Pattern("^Subject:\\s*(.+)$",
               <<Lit("Subject:"), Spaces0, Rest>>, << <<3, 3>> >>),
       Pattern("^Code\\s+No\\.\\s*:\\s*(\\d+)\\s*(.+)$",
               <<Lit("Code"), Spaces1, Lit("No."), Spaces0, Lit(":"), Spaces0,
                 Number, Spaces0, Rest>>,
               << <<7, 7>>, <<9, 9>> >>) >>

\* lines 244-252
topic_patterns ==
    << Pattern("^([a-z]\\)|" \o Bullet \o "|\\*|\\-)\\s*(.+)$",
               <<Alt(<< <<Letters, {")"}>>, <<{Bullet}>>, <<{"*"}>>, <<{"-"}>> >>),
                 Spaces0, Rest>>,
               << <<1, 1>>, <<3, 3>> >>),
       Pattern("^(\\d+\\.\\d+)\\s*(.+)$",
               <<Number, Lit("."), Number, Spaces0, Rest>>, << <<1, 3>>, <<5, 5>> >>),
       Pattern("^\\((\\d+)\\)\\s*(.+)$",
               <<Lit("("), Number, Lit(")"), Spaces0, Rest>>, << <<2, 2>>, <<5, 5>> >>),
       Pattern("^([A-Z])\\.\\s*(.+)$",
               <<Alt(<< <<Letters>> >>), Lit("."), Spaces0, Rest>>,
               << <<1, 1>>, <<4, 4>> >>),
       Pattern("^The\\s+(.+)$", <<Lit("The"), Spaces1, Rest>>, << <<3, 3>> >>),
       Pattern("^This\\s+(.+)$", <<Lit("This"), Spaces1, Rest>>, << <<3, 3>> >>),
       Pattern("^It\\s+(.+)$", <<Lit("It"), Spaces1, Rest>>, << <<3, 3>> >>) >>

\* line 259
objective_patterns == {"^The\\s+(.+)$", "^This\\s+(.+)$", "^It\\s+(.+)$"}

\* lines 286-290
subtopic_patterns ==
    << Pattern("^(\\s{2,})(.+)$",
               <<Rep(Whitespace, 2, Unbounded), Rest>>, << <<1, 1>>, <<2, 2>> >>),
       Pattern("^(\\d+\\.\\d+\\.\\d+)\\s*(.+)$",
               <<Number, Lit("."), Number, Lit("."), Number, Spaces0, Rest>>,
               << <<1, 5>>, <<7, 7>> >>),
       Pattern("^\\((\\d+)\\)\\s*(.+)$",
               <<Lit("("), Number, Lit(")"), Spaces0, Rest>>, << <<2, 2>>, <<5, 5>> >>) >>

\* the first pattern of the list that matches content, 0 if none
FirstMatching(patterns, content) ==
    LET hits == {k \in 1..Len(patterns) : re_match(patterns[k], content) # <<>>}
    IN IF hits = {} THEN 0 ELSE CHOOSE h \in hits : \A g \in hits : h <= g

-----------------------------------------------------------------------------
(* reconstruct_words_to_sentences, src/pdf_to_excel_app.py, lines 107-173. *)
(* A frame of lines is the sequence of its rows, each a record with Page   *)
(* and Content and, on the pdfplumber path and after reconstruction,       *)
(* Line_Number                                                             *)

RECURSIVE TotalLength(_)
TotalLength(rows) ==
    IF rows = <<>> THEN 0 ELSE Len(Head(rows).Content) + TotalLength(Tail(rows))

\* line 114, avg_content_length > 10, without the division
AverageAbove(rows, limit) == TotalLength(rows) > limit * Len(rows)

MaxWordLength == 10

sentence_starters == {"PAPER", "UNIT", "Subject:", "Code", "The", "This", "It"}

\* slip: line 144 is left out
is_new_sentence_no_digit(content) ==
    /\ content # ""
    /\ \/ Char(content, 1) \in CharsOf(UpperCase)
       \/ content \in sentence_starters
       \/ Char(content, 1) = "("
       \/ Char(content, 1) = Bullet

\* lines 141-148
is_new_sentence(content) ==
    /\ content # ""
    /\ \/ Char(content, 1) \in CharsOf(UpperCase)
       \/ Char(content, 1) \in DigitChars
       \/ content \in sentence_starters
       \/ Char(content, 1) = "("
       \/ Char(content, 1) = Bullet

\* lines 127-135, 151-158, 164-171: the words collected become one line
FlushLine(out, page, words) ==
    IF words # <<>> /\ Strip(Join(" ", words)) # ""
    THEN Append(out, [Page |-> page, Content |-> Join(" ", words),
                      Line_Number |-> Len(out) + 1])
    ELSE out

RECURSIVE Regroup(_, _, _, _, _)
\* lines 121-171 from row k on
Regroup(rows, k, current_page, current_line_words, reconstructed_data) ==
    IF k > Len(rows)
    THEN FlushLine(reconstructed_data, current_page, current_line_words)
    ELSE LET content == Strip(rows[k].Content)
             page == rows[k].Page
             turned == page # current_page
             out1 == IF turned
                     THEN FlushLine(reconstructed_data, current_page, current_line_words)
                     ELSE reconstructed_data
             words1 == IF turned THEN <<>> ELSE current_line_words
             breaks == is_new_sentence(content) /\ words1 # <<>>
             out2 == IF breaks THEN FlushLine(out1, page, words1) ELSE out1
             words2 == IF breaks THEN <<>> ELSE words1
         IN Regroup(rows, k + 1, page, Append(words2, content), out2)

reconstruct_words_to_sentences(rows) ==
    IF rows = <<>> THEN rows
    ELSE IF AverageAbove(rows, MaxWordLength) THEN rows
    ELSE Regroup(rows, 1, "", <<>>, <<>>)

-----------------------------------------------------------------------------
(* organize_syllabus_structure, src/pdf_to_excel_app.py, lines 175-347.    *)
(* Unit, Topic and Subtopic of a node are cells, so that the forward fill  *)
(* of lines 343-345 can tell a missing value from the empty string         *)

Node(row, unit, topic, subtopic, type, level) ==
    [Page |-> row.Page,
     Line_Number |-> IF "Line_Number" \in DOMAIN row THEN row.Line_Number ELSE 1,
     Unit |-> S(unit), Topic |-> S(topic), Subtopic |-> S(subtopic),
     Content |-> row.Content, Type |-> type, Level |-> level]

\* lines 211-224
UnitLabel(pattern, content) ==
    LET match == re_match(pattern, content)
    IN IF Contains(pattern.source, "Subject:")
       THEN "Subject: " \o Strip(Group(pattern, content, match, 1))
       ELSE IF Contains(pattern.source, "Code")
       THEN "Code " \o Group(pattern, content, match, 1) \o ": "
              \o Strip(Group(pattern, content, match, 2))
       ELSE "Unit " \o Group(pattern, content, match, 1) \o ": "
              \o Strip(Group(pattern, content, match, 2))

\* lines 259-267
TopicLabel(pattern, content) ==
    LET match == re_match(pattern, content)
    IN IF pattern.source \in objective_patterns
       THEN "Objective: " \o Strip(Group(pattern, content, match, 1))
       ELSE Group(pattern, content, match, 1) \o ". "
              \o Strip(Group(pattern, content, match, 2))

\* lines 296-298
SubtopicLabel(pattern, content) ==
    LET match == re_match(pattern, content)
    IN Group(pattern, content, match, 1) \o ". "
         \o Strip(Group(pattern, content, match, 2))

\* slip: the topic patterns are tried before the unit patterns
ClassifyLineTopicFirst(row, cur) ==
    LET content == row.Content
        u == FirstMatching(unit_patterns, content)
        t == FirstMatching(topic_patterns, content)
        b == FirstMatching(subtopic_patterns, content)
    IN IF t # 0
       THEN LET topic == TopicLabel(topic_patterns[t], content)
            IN [node |-> Node(row, cur.unit, topic, "", "Topic_Header", 2),
                unit |-> cur.unit, topic |-> topic, subtopic |-> ""]
       ELSE IF u # 0
       THEN LET unit == UnitLabel(unit_patterns[u], content)
            IN [node |-> Node(row, unit, "", "", "Unit_Header", 1),
                unit |-> unit, topic |-> "", subtopic |-> ""]
       ELSE IF b # 0
       THEN LET subtopic == SubtopicLabel(subtopic_patterns[b], content)
            IN [node |-> Node(row, cur.unit, cur.topic, subtopic, "Subtopic_Header", 3),
                unit |-> cur.unit, topic |-> cur.topic, subtopic |-> subtopic]
       ELSE IF cur.unit # ""
       THEN [node |-> Node(row, cur.unit, cur.topic, cur.subtopic, "Content",
                           IF cur.subtopic # "" THEN 4
                           ELSE IF cur.topic # "" THEN 3 ELSE 2),
             unit |-> cur.unit, topic |-> cur.topic, subtopic |-> cur.subtopic]
       ELSE [node |-> Node(row, "", "", "", "General_Content", 1),
             unit |-> cur.unit, topic |-> cur.topic, subtopic |-> cur.subtopic]

\* lines 207-238 for the unit pattern that matched: current_topic and
\* current_subtopic are reset
UnitStep(row, cur, pattern) ==
    LET unit == UnitLabel(pattern, row.Content)
    IN [node |-> Node(row, unit, "", "", "Unit_Header", 1),
        unit |-> unit, topic |-> "", subtopic |-> ""]

\* slip: line 268 is left out
TopicStepKeepsSubtopic(row, cur, pattern) ==
    LET topic == TopicLabel(pattern, row.Content)
    IN [node |-> Node(row, cur.unit, topic, "", "Topic_Header", 2),
        unit |-> cur.unit, topic |-> topic, subtopic |-> cur.subtopic]

\* lines 255-280 for the topic pattern that matched
TopicStep(row, cur, pattern) ==
    LET topic == TopicLabel(pattern, row.Content)
    IN [node |-> Node(row, cur.unit, topic, "", "Topic_Header", 2),
        unit |-> cur.unit, topic |-> topic, subtopic |-> ""]

\* lines 293-310 for the subtopic pattern that matched
SubtopicStep(row, cur, pattern) ==
    LET subtopic == SubtopicLabel(pattern, row.Content)
    IN [node |-> Node(row, cur.unit, cur.topic, subtopic, "Subtopic_Header", 3),
        unit |-> cur.unit, topic |-> cur.topic, subtopic |-> subtopic]

\* slip: lines 332-334 write the current parents
ContentStepGeneralKeepsParents(row, cur) ==
    IF cur.unit # ""
    THEN [node |-> Node(row, cur.unit, cur.topic, cur.subtopic, "Content",
                        IF cur.subtopic # "" THEN 4
                        ELSE IF cur.topic # "" THEN 3 ELSE 2),
          unit |-> cur.unit, topic |-> cur.topic, subtopic |-> cur.subtopic]
    ELSE [node |-> Node(row, cur.unit, cur.topic, cur.subtopic, "General_Content", 1),
          unit |-> cur.unit, topic |-> cur.topic, subtopic |-> cur.subtopic]

\* lines 315-338: a line that no pattern matched
ContentStep(row, cur) ==
    IF cur.unit # ""
    THEN [node |-> Node(row, cur.unit, cur.topic, cur.subtopic, "Content",
                        IF cur.subtopic # "" THEN 4
                        ELSE IF cur.topic # "" THEN 3 ELSE 2),
          unit |-> cur.unit, topic |-> cur.topic, subtopic |-> cur.subtopic]
    ELSE [node |-> Node(row, "", "", "", "General_Content", 1),
          unit |-> cur.unit, topic |-> cur.topic, subtopic |-> cur.subtopic]

\* lines 190-338: one iteration; cur is [unit, topic, subtopic], the values
\* of current_unit, current_topic, current_subtopic before it
ClassifyLine(row, cur) ==
    LET content == row.Content
        u == FirstMatching(unit_patterns, content)
        t == FirstMatching(topic_patterns, content)
        b == FirstMatching(subtopic_patterns, content)
    IN IF u # 0 THEN UnitStep(row, cur, unit_patterns[u])
       ELSE IF t # 0 THEN TopicStep(row, cur, topic_patterns[t])
       ELSE IF b # 0 THEN SubtopicStep(row, cur, subtopic_patterns[b])
       ELSE ContentStep(row, cur)

RECURSIVE ClassifyFrom(_, _, _)
\* the loop of line 190 from row k on
ClassifyFrom(rows, k, cur) ==
    IF k > Len(rows) THEN <<>>
    ELSE LET step == ClassifyLine(rows[k], cur)
         IN <<step.node>>
              \o ClassifyFrom(rows, k + 1,
                              [unit |-> step.unit, topic |-> step.topic,
                               subtopic |-> step.subtopic])

\* lines 184-186
NoParents == [unit |-> "", topic |-> "", subtopic |-> ""]

\* slip: the empty string counts as missing
ffill_blanks(col) ==
    [k \in 1..Len(col) |->
       LET known == {j \in 1..k : col[j] \notin {NoneCell, S("")}}
       IN IF known = {} THEN col[k]
          ELSE col[CHOOSE j \in known : \A h \in known : j >= h]]

\* Series.ffill(): a missing value (None, NaN) takes the last value that is
\* not missing before it; a string, the empty one included, is not missing
ffill(col) ==
    [k \in 1..Len(col) |->
       LET known == {j \in 1..k : col[j] # NoneCell}
       IN IF known = {} THEN col[k]
          ELSE col[CHOOSE j \in known : \A h \in known : j >= h]]

\* organized_df[...] of a frame built from no records (line 343)
KeyError == <<[Type |-> "KeyError"]>>

\* lines 340-345
FilledForward(organized_data) ==
    LET unit == ffill([k \in 1..Len(organized_data) |-> organized_data[k].Unit])
        topic == ffill([k \in 1..Len(organized_data) |-> organized_data[k].Topic])
        subtopic == ffill([k \in 1..Len(organized_data) |-> organized_data[k].Subtopic])
    IN [k \in 1..Len(organized_data) |->
          [organized_data[k] EXCEPT !.Unit = unit[k], !.Topic = topic[k],
                                    !.Subtopic = subtopic[k]]]

organize_syllabus_structure(rows) ==
    IF rows = <<>> THEN rows
    ELSE LET organized_data ==
                 ClassifyFrom(reconstruct_words_to_sentences(rows), 1, NoParents)
         IN IF organized_data = <<>> THEN KeyError
            ELSE FilledForward(organized_data)

-----------------------------------------------------------------------------
(* Classifier harness: organize_syllabus_structure on frames of up to      *)
(* MaxLines lines on one or two pages                                      *)

\* the lines drawn: a numbered heading, a lettered item, plain text, a
\* parenthesised number, a dotted number, a dotted triplet, two objective
\* sentences, an indented line and a single short word
ClsLines ==
    {"1. Introduction", "a) Overview", "Some detail text", "(1) Item",
     "1.1 Scope", "1.1.1 Detail", "The aim", "It is", "  indented line", "of"}

ClsPages == <<"Page 1", "Page 2">>

\* the frames of n lines, all on the first page or the last line on the
\* next one
FramesOfLength(n) ==
    {[k \in 1..n |-> [Page |-> ClsPages[IF k = n THEN last ELSE 1], Content |-> ln[k]]] :
        ln \in [1..n -> ClsLines], last \in 1..Len(ClsPages)}

InitCls ==
    /\ cdf \in UNION {FramesOfLength(n) : n \in 0..MaxLines}
    /\ organized = NotRun
    /\ reconstructed = NotRun
    /\ cpc = "call"
    /\ HdrIdle
    /\ TblIdle
    /\ ExtractIdle
    /\ DetIdle
    /\ OcrIdle
    /\ SylIdle

Organize ==
    /\ cpc = "call"
    /\ organized' = organize_syllabus_structure(cdf)
    /\ cpc' = "returned"
    /\ UNCHANGED <<cdf, reconstructed>>
    /\ UNCHANGED <<hvars, tvars, evars, dvars, ovars, svars>>

NextCls == Organize

SpecCls == InitCls /\ [][NextCls]_vars

-----------------------------------------------------------------------------
(* Reconstruction harness: reconstruct_words_to_sentences on frames of up  *)
(* to MaxLines words on one or two pages                                   *)

\* the words drawn: two capitalized ones, one of them long, a number, a
\* parenthesised marker and two in lower case
RecWords == {"The", "Understanding", "12", "(a)", "of", "aims"}

\* the frames of n words whose pages do not decrease
WordFramesOfLength(n) ==
    {[k \in 1..n |-> [Page |-> ClsPages[pg[k]], Content |-> w[k]]] :
        <<w, pg>> \in {wp \in [1..n -> RecWords] \X [1..n -> 1..Len(ClsPages)] :
                          \A k \in 1..(n - 1) : wp[2][k] <= wp[2][k + 1]}}

InitRec ==
    /\ cdf \in UNION {WordFramesOfLength(n) : n \in 0..MaxLines}
    /\ organized = NotRun
    /\ reconstructed = NotRun
    /\ cpc = "words"
    /\ HdrIdle
    /\ TblIdle
    /\ ExtractIdle
    /\ DetIdle
    /\ OcrIdle
    /\ SylIdle

Reconstruct ==
    /\ cpc = "words"
    /\ reconstructed' = reconstruct_words_to_sentences(cdf)
    /\ cpc' = "reconstructed"
    /\ UNCHANGED <<cdf, organized>>
    /\ UNCHANGED <<hvars, tvars, evars, dvars, ovars, svars>>

NextRec == Reconstruct

SpecRec == InitRec /\ [][NextRec]_vars

-----------------------------------------------------------------------------
(* organize_syllabus_data and the OCR path of syllabus_pdf_to_excel,       *)
(* src/syllabus_pdf_converter.py, lines 184-318.  A frame is the sequence  *)
(* of its rows, its columns are the fields of a row                        *)

HasField(df, name) == df # <<>> /\ name \in DOMAIN df[1]

RECURSIVE OrganizeRaw(_, _, _, _)
\* lines 221-261 from row k on; the patterns of lines 225 and 240 are the
\* first unit pattern and the first topic pattern of the classifier above
OrganizeRaw(df, k, current_unit, current_topic) ==
    IF k > Len(df) THEN <<>>
    ELSE LET content == df[k].Content
             unit_match == re_match(unit_patterns[1], content)
             topic_match == re_match(topic_patterns[1], content)
             unit == IF unit_match # <<>>
                     THEN "Unit " \o Group(unit_patterns[1], content, unit_match, 1)
                            \o ": "
                            \o Strip(Group(unit_patterns[1], content, unit_match, 2))
                     ELSE current_unit
             topic == IF unit_match # <<>> THEN ""
                      ELSE IF topic_match # <<>>
                      THEN Strip(Group(topic_patterns[1], content, topic_match, 2))
                      ELSE current_topic
             row == [Page |-> df[k].Page, Unit |-> S(unit),
                     Topic |-> IF unit_match # <<>> THEN S("") ELSE S(topic),
                     Subtopic |-> S(""), Content |-> content,
                     Type |-> IF unit_match # <<>> THEN "Unit"
                              ELSE IF topic_match # <<>> THEN "Topic" ELSE "Content"]
         IN <<row>> \o OrganizeRaw(df, k + 1, unit, topic)

\* lines 190-212: short lines are dropped, Unit and Topic filled forward,
\* and the rows whose Level is Unit, Topic or Subtopic kept; row['Level']
\* of a frame without that column raises KeyError
OrganizeStructured(df) ==
    LET kept == SelectSeq(df, LAMBDA row : Len(row.Content) > 2)
        unit == ffill([k \in 1..Len(kept) |-> kept[k].Unit])
        topic == ffill([k \in 1..Len(kept) |-> kept[k].Topic])
        filled == [k \in 1..Len(kept) |->
                     [kept[k] EXCEPT !.Unit = unit[k], !.Topic = topic[k]]]
        syllabus_data ==
            SelectSeq(filled, LAMBDA row : row.Level \in {"Unit", "Topic", "Subtopic"})
    IN IF kept # <<>> /\ ~HasField(kept, "Level") THEN KeyError
       ELSE [k \in 1..Len(syllabus_data) |->
               [Page |-> syllabus_data[k].Page, Unit |-> syllabus_data[k].Unit,
                Topic |-> syllabus_data[k].Topic,
                Subtopic |-> syllabus_data[k].Subtopic,
                Content |-> syllabus_data[k].Content,
                Type |-> syllabus_data[k].Level]]

\* lines 184-263
organize_syllabus_data(df) ==
    IF df = <<>> THEN df
    ELSE IF HasField(df, "Unit") THEN OrganizeStructured(df)
    ELSE OrganizeRaw(df, 1, "", "")

\* lines 289-318 for the frame df of the OCR path: an exception anywhere is
\* caught at line 316 and an empty frame returned; line 310 reads the column
\* Type, which an empty frame has not
OrganizeAndSave(df) ==
    IF df = <<>> THEN <<>>
    ELSE LET again == organize_syllabus_data(df)
         IN IF again = KeyError \/ again = <<>> THEN <<>> ELSE again

-----------------------------------------------------------------------------
(* Syllabus converter harness: the OCR path of syllabus_pdf_to_excel on up *)
(* to MaxLines recognized lines                                            *)

\* the lines drawn: a numbered heading, a lettered item, plain text and a
\* line of two characters
SylLines == {"1. Introduction", "a) Overview", "Some detail text", "of"}

InitSyl ==
    /\ \E n \in 0..MaxLines :
          sdf \in {[k \in 1..n |-> [Page |-> ClsPages[pg[k]], Content |-> ln[k]]] :
                     <<ln, pg>> \in {lp \in [1..n -> SylLines] \X [1..n -> 1..Len(ClsPages)] :
                                       \A k \in 1..(n - 1) : lp[2][k] <= lp[2][k + 1]}}
    /\ sorganized = NotRun
    /\ sreturned = NotRun
    /\ spc = "ocr"
    /\ HdrIdle
    /\ TblIdle
    /\ ExtractIdle
    /\ DetIdle
    /\ OcrIdle
    /\ ClsIdle

\* lines 279-280 and 286-287: df = organize_syllabus_data(df) on the OCR
\* lines
OrganizeOcrLines ==
    /\ spc = "ocr"
    /\ sorganized' = organize_syllabus_data(sdf)
    /\ spc' = "organized"
    /\ UNCHANGED <<sdf, sreturned>>
    /\ UNCHANGED <<hvars, tvars, evars, dvars, ovars, cvars>>

\* lines 289-318
OrganizeAgainAndSave ==
    /\ spc = "organized"
    /\ sreturned' = OrganizeAndSave(sorganized)
    /\ spc' = "returned"
    /\ UNCHANGED <<sdf, sorganized>>
    /\ UNCHANGED <<hvars, tvars, evars, dvars, ovars, cvars>>

NextSyl == OrganizeOcrLines \/ OrganizeAgainAndSave

SpecSyl == InitSyl /\ [][NextSyl]_vars

-----------------------------------------------------------------------------
(* Documents drawn for the pipeline *)
LongLine == "Introduction_to_Computational_Linguistics_and_Semantics"

Word(text, x0, top) == [text |-> text, x0 |-> x0, top |-> top, width |-> 9, height |-> 3]

\* nothing on the page
EmptyPage ==
    [tables |-> <<>>, text |-> S(""), words |-> <<>>, images |-> <<>>,
     annots |-> <<>>, ocr |-> ""]

\* a page of running text, with a figure and a link
TextPage ==
    [tables |-> <<>>,
     text |-> S(LongLine \o "\n Unit_1 "),
     words |-> <<Word(LongLine, 1, 1), Word("Unit_1", 1, 2)>>,
     images |-> <<[x0 |-> 4, top |-> 5, width |-> 6, height |-> 7]>>,
     annots |-> <<[subtype |-> "Link", x0 |-> 1, top |-> 2]>>,
     ocr |-> LongLine \o "\nUnit_1"]

\* a page with a contents table that has its own column named Page, and a
\* one-row table
TablePage ==
    [tables |-> << << <<S("Page"), S("Title")>>, <<NoneCell, S(" ")>>,
                      <<S("7"), S("Scope")>> >>,
                   << <<S("x")>> >> >>,
     text |-> S("Page Title\n7 Scope\nx"),
     words |-> <<Word("Page", 1, 1), Word("Title", 2, 1), Word("7", 1, 2),
                 Word("Scope", 2, 2), Word("x", 1, 3)>>,
     images |-> <<>>,
     annots |-> <<>>,
     ocr |-> "Page  Title\n7  Scope\nx"]

\* a page whose text is white space only
BlankPage ==
    [tables |-> <<>>, text |-> S(" \n "), words |-> <<>>, images |-> <<>>,
     annots |-> <<>>, ocr |-> ""]

\* a scanned page: an image of the sheet and no text layer
ScannedPage ==
    [tables |-> <<>>, text |-> NoneCell, words |-> <<>>,
     images |-> <<[x0 |-> 0, top |-> 0, width |-> 8, height |-> 11]>>,
     annots |-> <<>>, ocr |-> "Scanned line\n\n second "]

PageKinds == {EmptyPage, TextPage, TablePage, BlankPage, ScannedPage}

-----------------------------------------------------------------------------
(* PDFExtractor.extract, lines 333-451, step by step *)

\* the positions at which a call over the pages of pdf may raise, while
\* the run may still take a fault
FaultsLeft == MaxFaults - faults
Positions(n) == IF gone THEN {AtOpen}
                ELSE IF FaultsLeft > 0 THEN {NoFault} \cup 0..n ELSE {NoFault}
Cost(fault) == IF fault = NoFault \/ gone THEN 0 ELSE 1
\* a failure to open the file may be lasting
Lost(fault) == IF gone THEN {TRUE} ELSE IF fault = AtOpen THEN BOOLEAN ELSE {FALSE}

NoResults == <<"noresults">>

Init ==
    /\ exists \in BOOLEAN
    /\ \E n \in 0..MaxPages :
          pdf \in (IF exists THEN SeqsOfLen(PageKinds, n) ELSE {<<>>})
    /\ pc = "start"
    /\ faults = 0
    /\ gone = FALSE
    /\ logged = {}
    /\ total_pages = 0
    /\ is_text = FALSE
    /\ extraction_method = ""
    /\ all_tables = <<>>
    /\ results = NoResults
    /\ HdrIdle
    /\ TblIdle
    /\ DetIdle
    /\ OcrIdle
    /\ ClsIdle
    /\ SylIdle

\* lines 344-345
CheckPath ==
    /\ pc = "start"
    /\ pc' = IF exists THEN "count" ELSE "FileNotFoundError"
    /\ UNCHANGED <<exists, pdf, faults, gone, logged, total_pages, is_text,
                   extraction_method, all_tables, results>>
    /\ UNCHANGED <<hvars, tvars, xvars>>

\* lines 349-357
GetPageCount ==
    /\ pc = "count"
    /\ \E fault \in Positions(0) :
          /\ total_pages' = IF fault = NoFault THEN Len(pdf) ELSE 0
          /\ logged' = IF fault = NoFault THEN logged ELSE logged \cup {"count"}
          /\ faults' = faults + Cost(fault)
          /\ gone' \in Lost(fault)
    /\ pc' = "detect"
    /\ UNCHANGED <<exists, pdf, is_text, extraction_method, all_tables, results>>
    /\ UNCHANGED <<hvars, tvars, xvars>>

\* line 360
DetectType ==
    /\ pc = "detect"
    /\ \E fault \in Positions(Len(pdf)) :
          \* the loop of line 67 returns at the first page with enough text
          /\ fault = NoFault \/ ~is_text_based(pdf, fault)
          /\ is_text' = is_text_based(pdf, fault)
          /\ logged' = IF fault = NoFault THEN logged ELSE logged \cup {"detect"}
          /\ faults' = faults + Cost(fault)
          /\ gone' \in Lost(fault)
    /\ pc' = "step1"
    /\ UNCHANGED <<exists, pdf, total_pages, extraction_method, all_tables, results>>
    /\ UNCHANGED <<hvars, tvars, xvars>>

\* the pages that the main loop of extract_text_tables enters
Entered(flt, p) ==
    flt.outer = NoFault \/ (flt.outer # AtOpen /\ p < flt.outer)

\* lost: the file is unreadable when the stage returns, so the fallback's
\* open fails after the main loop's did
TableCost(flt) ==
    IF gone THEN 0
    ELSE Cost(flt.outer) + Cost(flt.table) + Cost(flt.text)
           + (IF flt.lost /\ flt.outer = AtOpen THEN 0 ELSE Cost(flt.fallback))

TableFaults ==
    { flt \in [outer : Positions(Len(pdf)),
               fallback : Positions(Len(pdf)) \cup {AtOpen},
               table : {NoFault} \cup 1..Len(pdf),
               text : {NoFault} \cup 1..Len(pdf),
               lost : BOOLEAN] :
        /\ TableCost(flt) <= FaultsLeft
        /\ flt.outer = NoFault => flt.fallback = NoFault
        /\ flt.lost => flt.fallback = AtOpen
        /\ gone => flt.lost
        /\ flt.table # NoFault =>
              Entered(flt, flt.table) /\ pdf[flt.table].tables # <<>>
        /\ flt.text # NoFault =>
              Entered(flt, flt.text) /\ pdf[flt.text].tables = <<>> }

TableLog(flt) ==
    (IF flt.outer # NoFault THEN {"tables"} ELSE {})
    \cup (IF flt.fallback # NoFault THEN {"fallback"} ELSE {})
    \cup (IF flt.table # NoFault THEN {"table"} ELSE {})
    \cup (IF flt.text # NoFault THEN {"page_text"} ELSE {})

\* lines 367-371
TextTables ==
    /\ pc = "step1"
    /\ is_text
    /\ \E flt \in TableFaults :
          /\ all_tables' = all_tables \o extract_text_tables(pdf, flt)
          /\ logged' = logged \cup TableLog(flt)
          /\ faults' = faults + TableCost(flt)
          /\ gone' = flt.lost
    /\ extraction_method' = "pdfplumber"
    /\ pc' = "step2"
    /\ UNCHANGED <<exists, pdf, total_pages, is_text, results>>
    /\ UNCHANGED <<hvars, tvars, xvars>>

\* lines 372-376
ImageTables ==
    /\ pc = "step1"
    /\ ~is_text
    /\ \E fault \in Positions(Len(pdf)) :
          /\ all_tables' = all_tables \o extract_from_images(pdf, fault)
          /\ logged' = IF fault = NoFault THEN logged ELSE logged \cup {"ocr"}
          /\ faults' = faults + Cost(fault)
          /\ gone' \in Lost(fault)
    /\ extraction_method' = "ocr"
    /\ pc' = "step2"
    /\ UNCHANGED <<exists, pdf, total_pages, is_text, results>>
    /\ UNCHANGED <<hvars, tvars, xvars>>

\* lines 378-381
AllText ==
    /\ pc = "step2"
    /\ \E fault \in Positions(Len(pdf)) :
          /\ all_tables' = all_tables \o extract_all_text_comprehensive(pdf, fault)
          /\ logged' = IF fault = NoFault THEN logged ELSE logged \cup {"text"}
          /\ faults' = faults + Cost(fault)
          /\ gone' \in Lost(fault)
    /\ pc' = "step3"
    /\ UNCHANGED <<exists, pdf, total_pages, is_text, extraction_method, results>>
    /\ UNCHANGED <<hvars, tvars, xvars>>

\* lines 383-386
RemainingContent ==
    /\ pc = "step3"
    /\ \E fault \in Positions(Len(pdf)) :
          /\ all_tables' = all_tables \o extract_remaining_content(pdf, fault)
          /\ logged' = IF fault = NoFault THEN logged ELSE logged \cup {"remaining"}
          /\ faults' = faults + Cost(fault)
          /\ gone' \in Lost(fault)
    /\ pc' = "step4"
    /\ UNCHANGED <<exists, pdf, total_pages, is_text, extraction_method, results>>
    /\ UNCHANGED <<hvars, tvars, xvars>>

\* lines 388-412
Reconcile ==
    /\ pc = "step4"
    /\ \E failing \in SUBSET MissingPages(all_tables, total_pages) :
          /\ failing \subseteq VisitedPages(pdf, all_tables, total_pages, failing)
          /\ IF gone THEN failing = MissingPages(all_tables, total_pages)
                     ELSE Cardinality(failing) <= FaultsLeft
          /\ all_tables' = Reconciled(pdf, all_tables, total_pages, failing)
          /\ logged' = IF failing = {} THEN logged ELSE logged \cup {"page_content"}
          /\ faults' = IF gone THEN faults ELSE faults + Cardinality(failing)
          \* the ValueError of line 401 leaves extract: nothing catches it
          /\ pc' = IF RaisingPage(pdf, all_tables, total_pages, failing) # 0
                   THEN "ValueError" ELSE "step5"
    /\ UNCHANGED <<exists, pdf, gone, total_pages, is_text, extraction_method,
                   results>>
    /\ UNCHANGED <<hvars, tvars, xvars>>

\* len(final_extracted_pages) / total_pages * 100, kept as a fraction
Score(covered, total) ==
    IF total > 0 THEN [num |-> covered * 100, den |-> total]
    ELSE [num |-> 100, den |-> 1]

\* lines 414-451
Consolidate ==
    /\ pc = "step5"
    /\ LET consolidated_tables == consolidate_tables(all_tables, total_pages)
           final_extracted_pages == PagesOf(consolidated_tables)
       IN results' =
            [extraction_method |-> extraction_method,
             is_text_based |-> is_text,
             tables |-> consolidated_tables,
             total_tables |-> Len(consolidated_tables),
             total_rows |-> Len(Flatten([k \in 1..Len(consolidated_tables) |->
                                           consolidated_tables[k].rows])),
             total_pages |-> total_pages,
             extracted_pages |-> Cardinality(final_extracted_pages),
             missing_pages |-> 0,
             completeness_score |->
                 Score(Cardinality(final_extracted_pages), total_pages)]
    /\ pc' = "done"
    /\ UNCHANGED <<exists, pdf, faults, gone, logged, total_pages, is_text,
                   extraction_method, all_tables>>
    /\ UNCHANGED <<hvars, tvars, xvars>>

Next ==
    \/ CheckPath
    \/ GetPageCount
    \/ DetectType
    \/ TextTables
    \/ ImageTables
    \/ AllText
    \/ RemainingContent
    \/ Reconcile
    \/ Consolidate

Spec == Init /\ [][Next]_vars

-----------------------------------------------------------------------------
(* Consolidation harness: PDFExtractor.consolidate_tables, lines 688-738,  *)
(* called with up to MaxFrames records of the pages 1..total_pages         *)

\* the records of page p drawn: the two placeholders and a text block of
\* two lines
FramesOfPage(p) ==
    {NoContentFrame(p), EmptyPageFrame(p)} \cup
    {PageTextFrames(TextPage, p)[k] : k \in 1..Len(PageTextFrames(TextPage, p))}

InitCon ==
    /\ total_pages \in 1..MaxPages
    /\ \E n \in 0..MaxFrames :
          all_tables \in SeqsOfLen(UNION {FramesOfPage(p) : p \in 1..total_pages}, n)
    /\ pc = "consolidate"
    /\ exists = FALSE
    /\ pdf = <<>>
    /\ faults = 0
    /\ gone = FALSE
    /\ logged = {}
    /\ is_text = FALSE
    /\ extraction_method = ""
    /\ results = NoResults
    /\ HdrIdle
    /\ TblIdle
    /\ DetIdle
    /\ OcrIdle
    /\ ClsIdle
    /\ SylIdle

ConsolidateTables ==
    /\ pc = "consolidate"
    /\ results' = [tables |-> consolidate_tables(all_tables, total_pages)]
    /\ pc' = "consolidated"
    /\ UNCHANGED <<exists, pdf, faults, gone, logged, total_pages, is_text,
                   extraction_method, all_tables>>
    /\ UNCHANGED <<hvars, tvars, xvars>>

NextCon == ConsolidateTables

SpecCon == InitCon /\ [][NextCon]_vars

-----------------------------------------------------------------------------
(* Properties of the header sanitizer *)

Emitted(k) == {cleaned[j] : j \in 1..(k - 1)}

IsBlankCell(c) == c = NoneCell \/ (IsStr(c) /\ Strip(c[2]) = "")

\* the label a cell asks for before duplicates are handled
WantedLabel(k) ==
    IF headers[k] = BadCell THEN ColumnLabel(k) ELSE BaseHeader(headers[k], k)

Suffixed(base, n) == base \o "_" \o ToStr(n)

\* C6: _clean_column_names returns a list as long as its input in which no
\* two labels are equal.
C6_UniqueLabels ==
    hpc # "pick" =>
        /\ Len(cleaned) = Len(headers)
        /\ \A a, b \in 1..Len(cleaned) : a # b => cleaned[a] # cleaned[b]

\* C6 witness: a list with two equal raw cells has been sanitized.
C6_Witness ==
    /\ hpc = "cleaned"
    /\ Len(headers) >= 2
    /\ \E a, b \in 1..Len(headers) : a # b /\ headers[a] = headers[b]
                                          /\ IsStr(headers[a]) /\ Strip(headers[a][2]) # ""

\* C7: _clean_column_names is idempotent: sanitizing an already sanitized
\* list returns it unchanged.
C7_Idempotent == hpc = "recleaned" => recleaned = cleaned

\* C8: left to right, a null or blank cell at position i asks for Column_i,
\* and a cell whose base label was already emitted is emitted as base_n for
\* the least n >= 1 with base_n not yet emitted; [None, Name, Name] yields
\* [Column_1, Name, Name_1].
C8_LeastSuffix ==
    hpc # "pick" =>
        /\ \A k \in 1..Len(headers) :
              LET base == WantedLabel(k)
                  earlier == Emitted(k)
              IN
              /\ IsBlankCell(headers[k]) => base = ColumnLabel(k)
              /\ IF base \notin earlier THEN cleaned[k] = base
                 ELSE \E n \in 1..k :
                        /\ cleaned[k] = Suffixed(base, n)
                        /\ cleaned[k] \notin earlier
                        /\ \A m \in 1..(n - 1) : Suffixed(base, m) \in earlier
        /\ headers = <<NoneCell, S("Name"), S("Name")>>
              => cleaned = <<"Column_1", "Name", "Name_1">>

\* C8 witness: a cell collided twice, so it was emitted with suffix 2 or
\* more, and a blank cell was labelled by its position.
C8_Witness ==
    /\ hpc = "cleaned"
    /\ \E k \in 1..Len(headers) :
          /\ WantedLabel(k) \in Emitted(k)
          /\ Suffixed(WantedLabel(k), 1) \in Emitted(k)
          /\ cleaned[k] \notin {WantedLabel(k), Suffixed(WantedLabel(k), 1)}
    /\ \E k \in 1..Len(headers) : IsBlankCell(headers[k])

-----------------------------------------------------------------------------
(* Properties of the table stage *)

Survivors == FilterRows(table)

\* column j of the surviving rows from row `first` on
DataColumn(j, first) ==
    [r \in 1..(Len(Survivors) - first + 1) |-> Survivors[r + first - 1][j]]

Occurrences(df, name) ==
    Cardinality({k \in 1..Len(df.columns) : df.columns[k] = name})

\* C9: a table with exactly one surviving row of m cells yields one data
\* row under Column_1..Column_m, no row consumed as header; a table with
\* k >= 2 surviving rows yields k-1 data rows under the sanitized first row.
C9_SingleRowIsData ==
    (tpc = "done" /\ Len(Survivors) >= 1) =>
        /\ Len(tout) = 1
        /\ LET df == tout[1]
               kept == Survivors
               m == Len(kept[1])
               k == Len(kept)
           IN IF k = 1
              THEN /\ Len(df.rows) = 1
                   /\ \A j \in 1..m :
                         /\ HasColumn(df, ColumnLabel(j))
                         /\ Column(df, ColumnLabel(j)) = DataColumn(j, 1)
                   /\ Len(df.columns) = m + 2
              ELSE /\ Len(df.rows) = k - 1
                   /\ LET labels == _clean_column_names(kept[1])
                      IN \A j \in 1..m :
                            /\ HasColumn(df, labels[j])
                            /\ Column(df, labels[j]) = DataColumn(j, 2)

\* C9 witness: a table of three rows lost a blank row and another table
\* kept a single row; here, the single surviving row among several.
C9_Witness ==
    /\ tpc = "done"
    /\ Len(table) >= 2
    /\ Len(Survivors) = 1
    /\ Len(tout) = 1
    /\ Len(tout[1].rows) = 1

\* the frame of the table before metadata is attached
RawFrame == TableFrame(Survivors)

\* C10: an existing column named Page or Table_Index is left as it is, with
\* its cell values; only the absent metadata column is added.
C10_MetadataOnlyIfAbsent ==
    (tpc = "done" /\ Len(Survivors) >= 1) =>
        LET df == tout[1]
            raw == RawFrame
            addedPage == IF HasColumn(raw, "Page") THEN 0 ELSE 1
            addedIndex == IF HasColumn(raw, "Table_Index") THEN 0 ELSE 1
        IN /\ \A c \in 1..Len(raw.columns) :
                 Column(df, raw.columns[c]) = Column(raw, raw.columns[c])
           /\ Len(df.columns) = Len(raw.columns) + addedPage + addedIndex
           /\ Occurrences(df, "Page") = 1
           /\ Occurrences(df, "Table_Index") = 1
           /\ addedPage = 1 =>
                 Column(df, "Page") = [r \in 1..Len(df.rows) |-> I(tpage)]
           /\ addedIndex = 1 =>
                 Column(df, "Table_Index") = [r \in 1..Len(df.rows) |-> I(tidx + 1)]

\* C10 witness: the table brought its own Page column with a data row, and
\* only Table_Index was added.
C10_Witness ==
    /\ tpc = "done"
    /\ Len(Survivors) >= 2
    /\ HasColumn(RawFrame, "Page")
    /\ ~HasColumn(RawFrame, "Table_Index")
    /\ Len(tout[1].columns) = Len(RawFrame.columns) + 1
    /\ Column(tout[1], "Page") # [r \in 1..Len(tout[1].rows) |-> I(tpage)]

-----------------------------------------------------------------------------
(* Properties of extract *)

\* the rows of a list of frames that carry the content-type tag, as
\* <<frame index, row index>>
TaggedRows(frames, tag) ==
    { tr \in UNION { {<<t, r>> : r \in 1..Len(frames[t].rows)} : t \in 1..Len(frames) } :
        /\ HasColumn(frames[tr[1]], "Content_Type")
        /\ Column(frames[tr[1]], "Content_Type")[tr[2]] = S(tag) }

\* the Page cells of those rows
TaggedPages(frames, tag) ==
    { Column(frames[tr[1]], "Page")[tr[2]] : tr \in TaggedRows(frames, tag) }

PageNumbers(n) == {I(p) : p \in 1..n}

\* the records of the result without the generated summary segment
Extracted == Tail(results.tables)

\* C1: in every run of extract that returns, every page number of
\* 1..total_pages is the Page of at least one record of the result (of one
\* that is not the generated summary, which lists every page anyway).
C1_EveryPageCovered ==
    pc = "done" =>
        \A p \in 1..results.total_pages :
            /\ results.tables # <<>>
            /\ I(p) \in PagesOf(Extracted)

\* C1 witness: a run with a failed call returned, and a page that no stage
\* had recorded was given its placeholder.
C1_Witness ==
    /\ pc = "done"
    /\ results.total_pages >= 2
    /\ faults >= 1
    /\ TaggedRows(results.tables, "Empty_Page") # {}

\* C2: after reconciliation the distinct page numbers present in the
\* returned result are exactly 1..total_pages.
C2_ExactPageSet ==
    pc = "done" => PagesOf(results.tables) = PageNumbers(results.total_pages)

\* C3: completeness_score is covered_pages / total_pages x 100 and is
\* exactly 100 in every returning run (100 by definition for 0 pages).
C3_ScoreIs100 ==
    pc = "done" =>
        results.completeness_score.num = 100 * results.completeness_score.den

\* a 3-page document whose page 2 yields nothing and whose pages 1 and 3
\* yield content
HasContent(page) == page \in {TextPage, TablePage, ScannedPage}

EmptyMiddle ==
    /\ exists
    /\ Len(pdf) = 3
    /\ pdf[2] = EmptyPage
    /\ HasContent(pdf[1])
    /\ HasContent(pdf[3])

C5_OnlyEmptyPagePlaceholders ==
    [][pc = "step4" =>
          all_tables' = all_tables \o
              Flatten([p \in 1..total_pages |->
                         IF p \in MissingPages(all_tables, total_pages)
                         THEN <<EmptyPageFrame(p)>> ELSE <<>>])]_vars

-----------------------------------------------------------------------------
(* Error handling of extract *)

\* the ways extract is left by an exception
Raised == {"FileNotFoundError", "ValueError"}

\* C13: for a path that exists extract never propagates an exception; the
\* only exception it raises is the not-found error, for a path that does
\* not exist.
C13_OnlyNotFoundPropagates ==
    pc \in Raised => (~exists /\ pc = "FileNotFoundError")

\* C14: when the page count of an existing file cannot be read, extract
\* aborts with the not-found error and returns no result (in particular
\* none that reports 0 pages with a score of 100).
C14_UnreadableCountAborts ==
    "count" \in logged =>
        /\ pc = "FileNotFoundError"
        /\ results = NoResults

\* the frames of a stage's output that belong to the pages after p
FramesAfter(frames, p) ==
    SelectSeq(frames, LAMBDA df : \E q \in (p + 1)..Len(pdf) : I(q) \in PagesOf(<<df>>))

\* the table stage without any failure
NoFaults ==
    [outer |-> NoFault, fallback |-> NoFault, table |-> NoFault,
     text |-> NoFault, lost |-> FALSE]

\* the ways in which the table stage can fail on one page and nowhere else
OnePageFaults ==
    {flt \in TableFaults :
        /\ flt.outer # AtOpen
        /\ flt.fallback = NoFault
        /\ Cardinality({f \in {flt.outer, flt.table, flt.text} : f # NoFault}) = 1}

\* the page on which flt fails
FaultPage(flt) ==
    CHOOSE f \in {flt.outer, flt.table, flt.text} : f # NoFault

\* C15: in each per-page stage a failure while processing page p leaves
\* the records of the pages after p as they are without the failure:
\* whenever a stage is about to run and one of its calls may fail, for each
\* page p the stage's output with the failure at p agrees with its output
\* without failure on the pages p+1..total_pages.
C15_PageFaultIsolated ==
    (FaultsLeft > 0 /\ ~gone) =>
        /\ (pc = "step1" /\ is_text) =>
              \A flt \in OnePageFaults :
                 FramesAfter(extract_text_tables(pdf, flt), FaultPage(flt))
                    = FramesAfter(extract_text_tables(pdf, NoFaults), FaultPage(flt))
        /\ pc = "step2" =>
              \A p \in 1..Len(pdf) :
                 FramesAfter(extract_all_text_comprehensive(pdf, p), p)
                    = FramesAfter(extract_all_text_comprehensive(pdf, NoFault), p)
        /\ pc = "step3" =>
              \A p \in 1..Len(pdf) :
                 FramesAfter(extract_remaining_content(pdf, p), p)
                    = FramesAfter(extract_remaining_content(pdf, NoFault), p)

-----------------------------------------------------------------------------
(* Routing to OCR *)

\* the records of the stages other than OCR, once they have all run: OCR
\* and the table stage exclude each other (lines 367-376), and the frames
\* of OCR are the ones with a Table_Index column then (line 240)
NonOcrRecords ==
    IF extraction_method = "ocr"
    THEN SelectSeq(all_tables, LAMBDA df : ~HasColumn(df, "Table_Index"))
    ELSE all_tables

\* C16: when the table, text and residual stages have run, OCR has run if
\* and only if the document was detected image-based or those stages
\* produced no record at all.
C16_OcrIffImageOrNothing ==
    pc = "step4" =>
        (extraction_method = "ocr" <=> (~is_text \/ NonOcrRecords = <<>>))

-----------------------------------------------------------------------------
(* Consolidation *)

\* the page numbers of a segment
PageNums(df) == {p \in 1..Len(pdf) : I(p) \in PagesOf(<<df>>)}

\* how often df occurs in frames
Copies(frames, df) == Cardinality({k \in 1..Len(frames) : frames[k] = df})

\* a generated summary segment: one Page_Summary row per page
IsSummary(df, page_count) ==
    /\ Len(df.rows) = page_count
    /\ page_count > 0 =>
          /\ HasColumn(df, "Content_Type")
          /\ \A r \in 1..Len(df.rows) :
                /\ Column(df, "Content_Type")[r] = S("Page_Summary")
                /\ Column(df, "Page")[r] = I(r)

\* C18: the list that consolidate_tables returns for a non-empty input
\* starts with the generated summary, followed by all original segments,
\* none dropped or altered, in non-decreasing page order.
C18_SummaryThenPageOrder ==
    (pc = "done" /\ all_tables # <<>>) =>
        /\ results.tables # <<>>
        /\ IsSummary(Head(results.tables), total_pages)
        /\ Len(Extracted) = Len(all_tables)
        /\ \A k \in 1..Len(all_tables) :
              Copies(Extracted, all_tables[k]) = Copies(all_tables, all_tables[k])
        /\ \A i, j \in 1..Len(Extracted) :
              i < j => \A a \in PageNums(Extracted[i]), b \in PageNums(Extracted[j]) :
                         a <= b

-----------------------------------------------------------------------------
(* Type detection *)

\* the length of the text of a page without its surrounding white space,
\* 0 for a page without text
StrippedLength(page) ==
    IF page.text = NoneCell THEN 0 ELSE Len(Strip(page.text[2]))

\* C19: is_text_based answers False when opening the document or reading
\* a page's text raised, and otherwise True exactly when some single page
\* has more than 50 characters of stripped text; it changes nothing but
\* its answer (and the log).
C19_DetectionBySinglePage ==
    [][dpc = "call" =>
          /\ dlogged' => ~danswer'
          /\ ~dlogged' =>
                (danswer' <=> \E p \in 1..Len(ddoc) : StrippedLength(ddoc[p]) > 50)
          /\ ddoc' = ddoc]_vars

\* C19 witness: detection has read a page of exactly 50 characters of
\* stripped text (more with the white space around it) and answered False
C19_Witness ==
    /\ dpc = "returned"
    /\ ~danswer
    /\ ~dlogged
    /\ \E p \in 1..Len(ddoc) : StrippedLength(ddoc[p]) = 50 /\ Len(ddoc[p].text[2]) > 50

-----------------------------------------------------------------------------
(* Temporary directories of OCR *)

\* C17: whichever of the three OCR routines has created a temporary
\* directory has released it when it returns, on every exit path.
C17_TempDirReleased ==
    opc = "returned" => temp_dir # "live"

-----------------------------------------------------------------------------
(* Structure classifier *)

\* the call has returned nodes
Classified == cpc = "returned" /\ cdf # <<>> /\ organized[1].Type # "KeyError"

\* the nodes before the forward fill of lines 343-345
BeforeFill == ClassifyFrom(reconstruct_words_to_sentences(cdf), 1, NoParents)

AncestryFields == {"Unit", "Topic", "Subtopic"}

\* the value of field f in the nearest node before k where it is not
\* blank, the empty string if there is none
NearestBefore(nodes, k, f) ==
    LET known == {j \in 1..(k - 1) : nodes[j][f] # S("")}
    IN IF known = {} THEN S("")
       ELSE nodes[CHOOSE j \in known : \A h \in known : j >= h][f]

\* C11: after the forward fill, every node whose Unit, Topic or Subtopic
\* was blank before it holds the nearest preceding node's non-blank value
\* of that field, or the empty string if no node before it has one.
C11_BlankTakesNearestPreceding ==
    Classified =>
        \A k \in 1..Len(organized) : \A f \in AncestryFields :
            BeforeFill[k][f] = S("") => organized[k][f] = NearestBefore(BeforeFill, k, f)

\* the lines of a frame
Contents(rows) == [k \in 1..Len(rows) |-> rows[k].Content]

\* C12: the lines "1. Introduction", "a) Overview", "Some detail text"
\* yield exactly three nodes: a Unit_Header of unit "Unit 1: Introduction",
\* a Topic_Header of that unit and topic "Overview", and a Content node
\* with that unit and the topic "Overview" inherited.
C12_ExampleOutline ==
    (cpc = "returned"
       /\ Contents(cdf) = <<"1. Introduction", "a) Overview", "Some detail text">>) =>
        /\ Len(organized) = 3
        /\ [k \in 1..3 |-> organized[k].Type]
              = <<"Unit_Header", "Topic_Header", "Content">>
        /\ \A k \in 1..3 : organized[k].Unit = S("Unit 1: Introduction")
        /\ organized[2].Topic = S("Overview")
        /\ organized[3].Topic = S("Overview")

\* the type that the strict priority gives a line: unit patterns first,
\* then topic patterns, then subtopic patterns
TypesByPriority(content) ==
    IF \E k \in 1..Len(unit_patterns) : re_match(unit_patterns[k], content) # <<>>
    THEN {"Unit_Header"}
    ELSE IF \E k \in 1..Len(topic_patterns) : re_match(topic_patterns[k], content) # <<>>
    THEN {"Topic_Header"}
    ELSE IF \E k \in 1..Len(subtopic_patterns) :
               re_match(subtopic_patterns[k], content) # <<>>
    THEN {"Subtopic_Header"}
    ELSE {"Content", "General_Content"}

\* nodes are the lines, one each and in order, with the line's page and
\* content and a type of the strict priority
OneNodePerLine(nodes, lines) ==
    /\ Len(nodes) = Len(lines)
    /\ \A k \in 1..Len(lines) :
          /\ nodes[k].Page = lines[k].Page
          /\ nodes[k].Content = lines[k].Content
          /\ nodes[k].Type \in TypesByPriority(lines[k].Content)

-----------------------------------------------------------------------------
(* The classifier state along the lines *)

RECURSIVE ParentsAlong(_, _, _)
\* current_unit, current_topic, current_subtopic after each of the lines
\* k.. of the loop of line 190, cur being their values before line k
ParentsAlong(rows, k, cur) ==
    IF k > Len(rows) THEN <<>>
    ELSE LET step == ClassifyLine(rows[k], cur)
             next == [unit |-> step.unit, topic |-> step.topic,
                      subtopic |-> step.subtopic]
         IN <<next>> \o ParentsAlong(rows, k + 1, next)

\* the values before line k, trace being ParentsAlong of all the lines
ParentsBefore(trace, k) == IF k = 1 THEN NoParents ELSE trace[k - 1]

\* the lines the loop of line 190 runs over
LoopLines == reconstruct_words_to_sentences(cdf)

\* the first of the three pattern lists with a pattern that matches
MatchKind(content) ==
    IF FirstMatching(unit_patterns, content) # 0 THEN "unit"
    ELSE IF FirstMatching(topic_patterns, content) # 0 THEN "topic"
    ELSE IF FirstMatching(subtopic_patterns, content) # 0 THEN "subtopic"
    ELSE "content"

MatchKinds(lines) == [k \in 1..Len(lines) |-> MatchKind(lines[k].Content)]

\* C21: over any line sequence the classifier state changes only like this:
\* a unit match sets current_unit (the Unit of the node it emits) and resets
\* current_topic and current_subtopic to ""; a topic match sets current_topic,
\* resets current_subtopic to "" and leaves current_unit; a subtopic match
\* sets current_subtopic and leaves current_unit and current_topic; a content
\* line leaves all three
C21_StateChangesByMatchKind ==
    Classified =>
        \A lines \in {LoopLines} :
        \A trace \in {ParentsAlong(lines, 1, NoParents)} :
        \A kinds \in {MatchKinds(lines)} :
        \A k \in 1..Len(lines) :
            LET before == ParentsBefore(trace, k)
                after == trace[k]
            IN /\ kinds[k] = "unit" =>
                     /\ after.unit # "" /\ organized[k].Unit = S(after.unit)
                     /\ after.topic = "" /\ after.subtopic = ""
               /\ kinds[k] = "topic" =>
                     /\ after.topic # "" /\ organized[k].Topic = S(after.topic)
                     /\ after.subtopic = "" /\ after.unit = before.unit
               /\ kinds[k] = "subtopic" =>
                     /\ after.subtopic # ""
                     /\ organized[k].Subtopic = S(after.subtopic)
                     /\ after.unit = before.unit /\ after.topic = before.topic
               /\ kinds[k] = "content" => after = before

\* a topic header after a subtopic header: the subtopic is reset; and a
\* subtopic header under a topic
C21_Witness ==
    /\ Classified
    /\ \E lines \in {LoopLines} :
       \E trace \in {ParentsAlong(lines, 1, NoParents)} :
       \E kinds \in {MatchKinds(lines)} :
          /\ \E k \in 2..Len(lines) :
                /\ kinds[k] = "topic"
                /\ trace[k - 1].subtopic # ""
                /\ trace[k].subtopic = ""
          /\ \E k \in 2..Len(lines) :
                /\ kinds[k] = "subtopic"
                /\ trace[k - 1].topic # ""

\* a unit header stands before line k
UnitBefore(kinds, k) == \E j \in 1..(k - 1) : kinds[j] = "unit"

\* C22: a line matching no header pattern becomes General_Content with
\* level 1 and blank unit, topic and subtopic exactly if no unit header
\* stands before it (a topic or subtopic header may); otherwise it becomes
\* Content with the current unit, topic and subtopic and level 4 if the
\* subtopic is set, else 3 if the topic is set, else 2
C22_ContentOrGeneral ==
    Classified =>
        \A lines \in {LoopLines} :
        \A trace \in {ParentsAlong(lines, 1, NoParents)} :
        \A kinds \in {MatchKinds(lines)} :
        \A k \in 1..Len(lines) :
            kinds[k] = "content" =>
                LET cur == ParentsBefore(trace, k)
                    node == organized[k]
                IN IF UnitBefore(kinds, k)
                   THEN /\ node.Type = "Content"
                        /\ node.Unit = S(cur.unit)
                        /\ node.Topic = S(cur.topic)
                        /\ node.Subtopic = S(cur.subtopic)
                        /\ node.Level = IF cur.subtopic # "" THEN 4
                                        ELSE IF cur.topic # "" THEN 3 ELSE 2
                   ELSE /\ node.Type = "General_Content"
                        /\ node.Level = 1
                        /\ node.Unit = S("")
                        /\ node.Topic = S("")
                        /\ node.Subtopic = S("")

\* a plain line after a topic header and no unit header
C22_Witness ==
    /\ Classified
    /\ \E lines \in {LoopLines} :
       \E trace \in {ParentsAlong(lines, 1, NoParents)} :
       \E kinds \in {MatchKinds(lines)} :
       \E k \in 2..Len(lines) :
             /\ kinds[k] = "content"
             /\ ~UnitBefore(kinds, k)
             /\ trace[k - 1].topic # ""
             /\ organized[k].Type = "General_Content"

\* s.startswith(prefix)
StartsWith(s, prefix) ==
    Len(s) >= Len(prefix) /\ SubSeq(s, 1, Len(prefix)) = prefix

DeclarativeOpeners == {"The ", "This ", "It "}

\* C23: every line that begins with "The ", "This " or "It " becomes a
\* Topic_Header whose topic is "Objective: " followed by the rest of the
\* line, and current_unit stays as it was
C23_OpenersAreObjectives ==
    Classified =>
        \A lines \in {LoopLines} :
        \A trace \in {ParentsAlong(lines, 1, NoParents)} :
        \A k \in 1..Len(lines) :
        \A opener \in DeclarativeOpeners :
            LET content == lines[k].Content
            IN StartsWith(content, opener) =>
                  /\ organized[k].Type = "Topic_Header"
                  /\ organized[k].Topic =
                        S("Objective: "
                            \o Strip(SubSeq(content, Len(opener) + 1, Len(content))))
                  /\ trace[k].unit = ParentsBefore(trace, k).unit

\* N.M.K Title
IsDecimalTriplet(content) == re_match(subtopic_patterns[2], content) # <<>>
\* N.M Title
IsDecimal(content) ==
    re_match(topic_patterns[2], content) # <<>> /\ ~IsDecimalTriplet(content)

\* C24: a line of the form "N.M Title" becomes a Topic_Header and a line of
\* the form "N.M.K Title" a Subtopic_Header; neither becomes a Unit_Header
\* and neither changes current_unit
C24_DecimalHeaders ==
    Classified =>
        \A lines \in {LoopLines} :
        \A trace \in {ParentsAlong(lines, 1, NoParents)} :
        \A k \in 1..Len(lines) :
            LET content == lines[k].Content
            IN /\ IsDecimal(content) => organized[k].Type = "Topic_Header"
               /\ IsDecimalTriplet(content) => organized[k].Type = "Subtopic_Header"
               /\ IsDecimal(content) \/ IsDecimalTriplet(content) =>
                     trace[k].unit = ParentsBefore(trace, k).unit

\* C25: extract_text_tables alone returns at least one entry (table, text
\* block or "[No extractable content]" placeholder) for every page
\* 1..total_pages, however the tables are spread over the pages: after a
\* table stage in which nothing failed every page number of the document is
\* in the Page column of some frame
C25_TableStageCoversEveryPage ==
    (pc = "step2" /\ extraction_method = "pdfplumber" /\ logged = {}) =>
        \A p \in 1..Len(pdf) : I(p) \in PagesOf(all_tables)

-----------------------------------------------------------------------------
(* Word reconstruction *)

\* a word that starts a sentence: capitalized, numeric or with a marker in
\* front
Starter(word) ==
    /\ word # ""
    /\ Char(word, 1) \in CharsOf(UpperCase) \cup DigitChars \cup {"(", Bullet}

\* the j-th smallest member of a set of numbers
Nth(set, j) == CHOOSE x \in set : Cardinality({y \in set : y < x}) = j - 1

\* lines is words cut into runs at the places firsts, each run joined by
\* single spaces, of one page, with no starter after its first word, and
\* beginning with a starter unless it is the first of its page
CutAt(words, firsts, lines) ==
    /\ Len(lines) = Cardinality(firsts)
    /\ \A j \in 1..Len(lines) :
          LET from == Nth(firsts, j)
              to == IF j = Len(lines) THEN Len(words) ELSE Nth(firsts, j + 1) - 1
          IN /\ lines[j].Content =
                   Join(" ", [i \in 1..(to - from + 1) |->
                                 Strip(words[from + i - 1].Content)])
             /\ \A i \in from..to : words[i].Page = lines[j].Page
             /\ \A i \in (from + 1)..to : ~Starter(Strip(words[i].Content))
             /\ from > 1 =>
                   \/ Starter(Strip(words[from].Content))
                   \/ words[from].Page # words[from - 1].Page

\* C26: when the reconstruction runs (average length at most 10) its lines
\* are the words cut into consecutive runs, so that every word is in exactly
\* one line and the order is kept, every line holds words of one page only,
\* and a starter is the first word of its line; when the average length
\* exceeds 10 the input is returned unchanged
C26_PseudoLinesPartitionWords ==
    (cpc = "reconstructed" /\ cdf # <<>>) =>
        IF AverageAbove(cdf, MaxWordLength) THEN reconstructed = cdf
        ELSE \E cuts \in SUBSET (2..Len(cdf)) :
                CutAt(cdf, {1} \cup cuts, reconstructed)

\* words of two pages, a line of several words, and a page that begins
\* with a word that is no starter
C26_Witness ==
    /\ cpc = "reconstructed"
    /\ ~AverageAbove(cdf, MaxWordLength)
    /\ Len(reconstructed) < Len(cdf)
    /\ \E k \in 2..Len(cdf) :
          /\ cdf[k].Page # cdf[k - 1].Page
          /\ ~Starter(cdf[k].Content)
          /\ \E j \in 2..Len(reconstructed) :
                /\ reconstructed[j].Page = cdf[k].Page
                /\ StartsWith(reconstructed[j].Content, cdf[k].Content)

-----------------------------------------------------------------------------
(* The summary segment *)

\* the number of records of frames whose Page is p
RecordsOfPage(frames, p) ==
    Len(Flatten([k \in 1..Len(frames) |->
                   IF HasColumn(frames[k], "Page")
                   THEN SelectSeq(Column(frames[k], "Page"), LAMBDA c : c = I(p))
                   ELSE <<>>]))

\* C27: for every record set, the empty one included, and every
\* total_pages >= 1 the summary segment that consolidate_tables produces has
\* exactly one Page_Summary record for each page 1..total_pages, in
\* ascending page order, whose Total_Items is the number of input records
\* with that Page
C27_OneSummaryRecordPerPage ==
    pc = "consolidated" =>
        /\ results.tables # <<>>
        /\ LET summary == Head(results.tables)
           IN /\ Len(summary.rows) = total_pages
              /\ \A p \in 1..total_pages :
                    /\ Column(summary, "Page")[p] = I(p)
                    /\ Column(summary, "Content_Type")[p] = S("Page_Summary")
                    /\ Column(summary, "Total_Items")[p] =
                          I(RecordsOfPage(all_tables, p))

-----------------------------------------------------------------------------
(* The two detectors *)

\* C28: for every document that the per-page detector, which stops at the
\* first page with more text than the threshold, classifies as text-based,
\* the cumulative detector, which reads every page and sums the lengths,
\* with the same threshold 50 answers text-based too
C28_PerPageImpliesCumulative ==
    dpc = "compared" => (danswer => denhanced)

-----------------------------------------------------------------------------
(* Unit boundaries *)

HeaderTypes == {"Unit_Header", "Topic_Header", "Subtopic_Header"}

\* the nearest header node before node k, 0 if there is none
HeaderBefore(nodes, k) ==
    LET before == {j \in 1..(k - 1) : nodes[j].Type \in HeaderTypes}
    IN IF before = {} THEN 0 ELSE CHOOSE j \in before : \A h \in before : j >= h

-----------------------------------------------------------------------------
(* The OCR path of the syllabus converter *)

\* C30: organize_syllabus_data applied to its own output succeeds and loses
\* no row, so that syllabus_pdf_to_excel, which applies it twice on its OCR
\* paths, returns a non-empty organized table whenever OCR yields at least
\* one line longer than 2 characters
C30_SecondOrganizeKeepsRows ==
    (spc = "returned" /\ \E k \in 1..Len(sdf) : Len(sdf[k].Content) > 2) =>
        /\ organize_syllabus_data(sorganized) # KeyError
        /\ Len(organize_syllabus_data(sorganized)) = Len(sorganized)
        /\ sreturned # <<>>

====
